---- MODULE Spec2Model ----
(***************************************************************************)
(* A model of the be13_api core: the scanner_set phase machine and its     *)
(* dispatch loop (process_sbuf), the seen-set and the carve cache of the   *)
(* feature recorders, and the parent/child accounting of sbuf_t.           *)
(***************************************************************************)
EXTENDS Integers, Sequences, FiniteSets, TLC

(***************************************************************************)
(* Bounds of the model and constants of the program                        *)
(***************************************************************************)

\* number of scanner functions the driver can register
MaxScanners == 2

\* length of the buffers fed to process_sbuf (longer than max_ngram, so that
\* a buffer with no repeating ngram exists)
BufLen == 11

\* scanner_set::max_depth {7}
max_depth == 7

\* scanner_set::max_ngram {10}
max_ngram == 10

\* scanner_set::dup_data_alerts {false}
dup_data_alerts == FALSE

ScannerIds == 1..MaxScanners

\* number of threads that call into a recorder or the recorder set at once
MaxThreads == 2

\* number of calls of check_previously_processed the threads make in all
MaxChecks == 4

\* number of calls of carve the threads make in all
MaxCarves == 2

\* number of sbuf_t objects that are ever constructed
MaxSbufs == 4

\* length of the longest sbuf the typed readers are called on
MaxReadLen == 9

\* length of the longest feature handed to quote_if_necessary
MaxQuoteLen == 4

\* number of calls of write, write_buf and histogram_add on the recorders
MaxWrites == 2

\* most commands the driver queues before apply_scanner_commands
MaxCommands == 2

\* most histograms the repeated calls of apply_scanner_commands may add
MaxHistograms == 2

\* the longest buffer an sbuf is constructed on when its sizes are followed
MaxMkLen == 3

\* most child constructors called one on the result of the other
MaxMakes == 2

\* the longest buffer getline is called on
MaxLineLen == 4

\* most calls of hash() made on one sbuf
MaxHashes == 3

Threads == 1..MaxThreads

(***************************************************************************)
(* State                                                                   *)
(***************************************************************************)
VARIABLES
    \* ---- scanner_set ----
    flags,              \* feature_recorder_set::flags_t of the set's fs
    scanner_commands,   \* sc.scanner_commands, the queued enable/disable commands
    current_phase,      \* scanner_set::current_phase
    scanner_info_db,    \* scanner_t* -> scanner_info (a map ordered by its key)
    enabled_scanners,   \* std::set<scanner_t*>
    frm,                \* fs.frm: the names of the feature recorders of the set
    histograms,         \* the histograms attached to the recorders, in order
    seen_set,           \* hashes of the sbufs already processed
    max_depth_seen,     \* scanner_set::max_depth_seen
    last,               \* the last operation called: its inputs, result and trace
    \* ---- threads in feature_recorder_set::check_previously_processed ----
    cp,                 \* thread -> where it is in the call, and its local sha1
    cp_log,             \* the calls that returned: thread, sha1, value returned
    \* ---- one feature_recorder and the threads in carve ----
    carve_mode,         \* feature_recorder::carve_mode
    do_not_carve_encoding,
    carve_cache,        \* hashes of the objects carved
    carved_file_count,  \* feature_recorder::carved_file_count
    files,              \* the files opened for writing under outdir, in order
    sink,               \* the records the recorder wrote to its feature file
    cv,                 \* thread -> where it is in carve, and its locals
    carve_log,          \* the carve calls that ended: thread, data, value returned
    \* ---- sbuf_t objects ----
    sb,                 \* object -> its state, parent pointer and children counter
    sb_status,          \* "running", or how the process died
    \* ---- the typed integer readers of one sbuf_t ----
    rd,                 \* the bytes of the sbuf and the last read made of it
    \* ---- feature_recorder::quote_if_necessary and unquote_string ----
    qs,                 \* the def of a recorder, a feature and what became of it
    \* ---- the feature recorders of a set and the calls of write ----
    recorders,          \* name -> def, features_written, histograms, records
    outdir,             \* feature_recorder_set::outdir
    stop_list,          \* fs.stop_list: whether it is set, and the features it matches
    stop_list_recorder, \* fs.stop_list_recorder: a recorder name, "" when not set
    wlast,              \* the last write, write_buf or histogram_add and its result
    \* ---- what ~sbuf_t releases ----
    sb_owns,            \* the objects constructed with should_free set
    sb_freed,           \* the objects whose bytes ~sbuf_t has freed
    sb_errors,          \* the "error: sbuf children=" lines ~sbuf_t has logged
    \* ---- the hasher of a feature_recorder_set ----
    hasher,             \* the last call that named a hash algorithm, and its result
    \* ---- the driver of add_scanners and the threads in write ----
    scanners,           \* the array of scanner functions given to add_scanners
    wthr,               \* thread -> where it is in feature_recorder::write
    \* ---- sbuf_t: sizes of the constructors, getline, hash ----
    mk,                 \* a parent sbuf, the constructor called on it and the child
    gl,                 \* the page of an sbuf, pos, and the lines getline returned
    hm,                 \* hash_ of one sbuf, and thread -> where it is in hash()
    \* ---- threads in the depth check of process_sbuf ----
    dp,                 \* thread -> where it is in the update of max_depth_seen
    \* ---- the nested calls of write on the stop list ----
    sw                  \* the frames of write on the call stack, and how it ended

ssvars == <<flags, scanner_commands, current_phase, scanner_info_db, enabled_scanners,
            frm, histograms, seen_set, max_depth_seen, last>>

cpvars == <<cp, cp_log>>

cvvars == <<carve_mode, do_not_carve_encoding, carve_cache, carved_file_count, files,
            sink, cv, carve_log>>

sbvars == <<sb, sb_status>>

rdvars == <<rd>>

qsvars == <<qs>>

frvars == <<outdir, recorders, stop_list, stop_list_recorder, wlast>>

dtvars == <<sb_owns, sb_freed, sb_errors>>

xvars == <<hasher, scanners, wthr>>

yvars == <<mk, gl, hm, dp, sw>>

extvars == <<dtvars, xvars, yvars>>

libvars == <<rdvars, qsvars, frvars, extvars>>

vars == <<ssvars, cpvars, cvvars, sbvars, libvars>>

(***************************************************************************)
(* scanner_params::phase_t                                                 *)
(***************************************************************************)
Phases == {"PHASE_INIT", "PHASE_ENABLED", "PHASE_SCAN", "PHASE_SHUTDOWN"}

\* the position of a phase in the sequence of operations of scanner_set.h
PhaseRank(p) ==
    CASE p = "PHASE_INIT"     -> 0
      [] p = "PHASE_ENABLED"  -> 1
      [] p = "PHASE_SCAN"     -> 2
      [] p = "PHASE_SHUTDOWN" -> 3

(***************************************************************************)
(* The buffers handed to process_sbuf                                      *)
(***************************************************************************)
Min(S) == CHOOSE x \in S : \A y \in S : x <= y

Max2(a, b) == IF a < b THEN b ELSE a

\* BufLen equal bytes: a buffer that is one repeated 1-gram
ContentNgram == [i \in 1..BufLen |-> 65]

\* no repeating ngram of a size up to max_ngram: an encoded object, which a
\* decoding scanner decodes to ContentNgram
ContentEnc == [i \in 1..BufLen |-> IF i = BufLen THEN 66 ELSE 65]

Contents == {ContentNgram, ContentEnc}

\* the depths of the buffers the driver hands in (pos0.depth)
TopDepths == {0, max_depth - 1, max_depth}

\* the buffers the driver hands in; those above depth 0 are encoded objects
Sbufs == {b \in [depth : TopDepths, buf : Contents] :
             b.depth > 0 => b.buf = ContentEnc}

\* the child buffer a decoding scanner makes from sbuf and hands to process_sbuf
ChildOf(sbuf) ==
    IF sbuf.buf = ContentEnc
    THEN <<[depth |-> sbuf.depth + 1, buf |-> ContentNgram]>>
    ELSE <<>>

\* sbuf_t::find_ngram_size: the smallest k <= max with the buffer k-periodic, else 0
IsPeriodic(buf, k) == \A i \in (k + 1)..Len(buf) : buf[i] = buf[((i - 1) % k) + 1]

\* the search for the ngram size from k upwards
RECURSIVE ngram_size_from(_, _, _)
ngram_size_from(buf, k, max) ==
    IF k > max THEN 0
    ELSE IF IsPeriodic(buf, k) THEN k
    ELSE ngram_size_from(buf, k + 1, max)

find_ngram_size(buf, max) == ngram_size_from(buf, 1, max)

\* sbuf_t::hash / sha1_generator::hash_buf(...).hexdigest(): a digest of the bytes
\* (collision-free on the buffers of the model)
hash_buf(buf) == <<"sha1", buf>>

(***************************************************************************)
(* Scanners: what a scanner function declares and does                     *)
(***************************************************************************)
ScannerNames == <<"alpha", "beta", "gamma", "delta">>

\* the scanner_info a scanner function may register (sp.info), its name fixed:
\* the first scanner function with any of these flags, the others with the
\* flags that let them run on every buffer; the second may instead register as
\* a scanner that is off by default and declares a feature file and a histogram
ScanFlags(s) ==
    IF s = 1
    THEN {<<FALSE, FALSE, TRUE>>, <<TRUE, TRUE, TRUE>>, <<TRUE, FALSE, FALSE>>}
    ELSE {<<TRUE, FALSE, TRUE>>}

InfoSet(s) ==
    { [name |-> ScannerNames[s],
       scan_ngram_buffer |-> f[1], depth0_only |-> f[2], scan_seen_before |-> f[3],
       default_enabled |-> TRUE, no_all |-> FALSE,
       feature_defs |-> <<>>, histogram_defs |-> <<>>] : f \in ScanFlags(s) }
    \cup
    { [name |-> ScannerNames[s],
       scan_ngram_buffer |-> TRUE, depth0_only |-> FALSE, scan_seen_before |-> TRUE,
       default_enabled |-> FALSE, no_all |-> TRUE,
       feature_defs |-> <<"email">>, histogram_defs |-> <<"email">>] : x \in {s} \cap {2} }

\* what one scanner call does: it may decode a child and recurse, then fail with
\* a std::exception ("std"; "std_long" when what() is longer than the alert
\* recorder's def.max_context_size) or with something else ("unknown").
\* The first scanner function is a decoder, the second a plain scanner that may
\* fail, the others plain scanners that do not fail.
Behaviours(s) ==
    IF s = 1
    THEN { [throws |-> "none", recurse |-> FALSE], [throws |-> "none", recurse |-> TRUE],
           [throws |-> "std", recurse |-> TRUE], [throws |-> "std_long", recurse |-> FALSE],
           [throws |-> "unknown", recurse |-> FALSE] }
    ELSE IF s = 2
    THEN { [throws |-> "none", recurse |-> FALSE], [throws |-> "std", recurse |-> FALSE] }
    ELSE { [throws |-> "none", recurse |-> FALSE] }

(***************************************************************************)
(* feature_recorder_set                                                    *)
(***************************************************************************)
ALERT_RECORDER_NAME == "alerts"

\* feature_recorder_set::flags_t
FlagSets ==
    { [no_alert |-> f[1], disabled |-> f[2], pedantic |-> f[3],
       record_files |-> TRUE, record_sql |-> FALSE]
      : f \in {<<FALSE, FALSE, FALSE>>, <<TRUE, FALSE, FALSE>>,
               <<FALSE, TRUE, FALSE>>, <<FALSE, FALSE, TRUE>>} }

\* create_feature_recorder without the test for a recorder of that name
create_feature_recorder_unchecked(r, name) ==
    IF flags.record_files /\ flags.record_sql THEN [frm |-> r, thrown |-> "runtime_error"]
    ELSE IF ~flags.record_files /\ ~flags.record_sql THEN [frm |-> r, thrown |-> "runtime_error"]
    ELSE [frm |-> r \cup {name}, thrown |-> ""]

\* feature_recorder_set::create_feature_recorder on the recorder names r:
\* the names afterwards and the exception thrown ("" for none)
create_feature_recorder(r, name) ==
    IF flags.record_files /\ flags.record_sql THEN [frm |-> r, thrown |-> "runtime_error"]
    ELSE IF ~flags.record_files /\ ~flags.record_sql THEN [frm |-> r, thrown |-> "runtime_error"]
    ELSE IF name \in r THEN [frm |-> r, thrown |-> "FeatureRecorderAlreadyExists"]
    ELSE [frm |-> r \cup {name}, thrown |-> ""]

\* fs.get_alert_recorder().write(pos0, feature, context) during call number callno
\* of a trace st; long says that the context exceeds def.max_context_size
alert_write(st, callno, feature, context, long) ==
    IF ALERT_RECORDER_NAME \notin frm THEN [st EXCEPT !.thrown = "NoSuchFeatureRecorder"]
    ELSE IF flags.disabled THEN st
    ELSE IF flags.pedantic /\ long THEN [st EXCEPT !.thrown = "runtime_error"]
    ELSE [st EXCEPT !.alerts = Append(@, [call |-> callno, feature |-> feature,
                                          context |-> context])]

(***************************************************************************)
(* scanner_set::process_sbuf                                               *)
(*                                                                         *)
(* A trace st records what one top-level call and the calls nested in it   *)
(* did: calls (one entry per process_sbuf call, numbered in order of       *)
(* entry), invoked (the scanner calls made), failures (the exceptions      *)
(* caught), alerts (the records the alert recorder emitted), deleted (the  *)
(* calls whose sbuf was deleted), seen and mds (seen_set, max_depth_seen), *)
(* thrown (the exception in flight, "" for none).                          *)
(***************************************************************************)
EmptyTrace ==
    [seen |-> seen_set, mds |-> max_depth_seen, calls |-> <<>>, invoked |-> <<>>,
     failures |-> <<>>, alerts |-> <<>>, deleted |-> <<>>, thrown |-> ""]

\* should_run without the test of scan_seen_before
should_run_ignoring_seen(s, sbuf, seen_before, ngram_size) ==
    /\ s \in enabled_scanners
    /\ ~(ngram_size > 0 /\ scanner_info_db[s].scan_ngram_buffer = FALSE)
    /\ ~(sbuf.depth > 0 /\ scanner_info_db[s].depth0_only)

\* the reasons not to run scanner s on a buffer (the continue statements of the loop)
should_run(s, sbuf, seen_before, ngram_size) ==
    /\ s \in enabled_scanners
    /\ ~(ngram_size > 0 /\ scanner_info_db[s].scan_ngram_buffer = FALSE)
    /\ ~(sbuf.depth > 0 /\ scanner_info_db[s].depth0_only)
    /\ ~(seen_before /\ scanner_info_db[s].scan_seen_before = FALSE)

\* a scanner call with no catch block around it
catch_scanner_rethrow(st, s, callno) == st

\* the catch blocks around a scanner call: the exception is logged to the alert
\* recorder; only NoSuchFeatureRecorder from that write is swallowed
catch_scanner(st, s, callno) ==
    IF st.thrown = "" THEN st
    ELSE LET caught == [st EXCEPT !.thrown = "",
                                  !.failures = Append(@, [call |-> callno, scanner |-> s,
                                                          what |-> st.thrown])]
             logged == IF st.thrown = "unknown"
                       THEN alert_write(caught, callno, <<"scanner=", scanner_info_db[s].name>>,
                                        "<unknown_exception></unknown_exception>", FALSE)
                       ELSE alert_write(caught, callno, <<"scanner=", scanner_info_db[s].name>>,
                                        "<exception>", st.thrown = "std_long")
         IN  IF logged.thrown = "NoSuchFeatureRecorder"
             THEN [logged EXCEPT !.thrown = ""]
             ELSE logged

\* the depth test with its bound off by one
too_deep_off_by_one(sbuf) == sbuf.depth > max_depth

\* if (sbuf.depth() >= max_depth)
too_deep(sbuf) == sbuf.depth >= max_depth

RECURSIVE process_sbuf(_, _, _)
RECURSIVE dispatch(_, _, _, _, _)

\* (*it.first)(sp): the scanner decodes and recurses when beh says so and the
\* buffer holds something to decode, then fails when beh says so
scanner_call(st, s, sbuf, beh) ==
    LET child == ChildOf(sbuf)
        st1 == IF beh[s].recurse /\ child # <<>> THEN process_sbuf(st, child[1], beh) ELSE st
    IN  IF st1.thrown # "" THEN st1
        ELSE IF beh[s].throws # "none" THEN [st1 EXCEPT !.thrown = beh[s].throws]
        ELSE st1

\* the loop over scanner_info_db, a std::map: in the order of its keys, from s on
dispatch(st, sbuf, callno, s, beh) ==
    IF s > MaxScanners THEN st
    ELSE IF s \notin DOMAIN scanner_info_db THEN dispatch(st, sbuf, callno, s + 1, beh)
    ELSE IF ~should_run(s, sbuf, st.calls[callno].seen_before, st.calls[callno].ngram_size)
         THEN dispatch(st, sbuf, callno, s + 1, beh)
    ELSE LET st1 == [st EXCEPT !.invoked = Append(@, [call |-> callno, scanner |-> s])]
             st2 == catch_scanner(scanner_call(st1, s, sbuf, beh), s, callno)
         IN  IF st2.thrown # "" THEN st2
             ELSE dispatch(st2, sbuf, callno, s + 1, beh)

process_sbuf(st, sbuf, beh) ==
    IF current_phase # "PHASE_SCAN" THEN [st EXCEPT !.thrown = "runtime_error"]
    ELSE
    LET callno == Len(st.calls) + 1 IN
    IF too_deep(sbuf)
    THEN LET st1 == [st EXCEPT !.calls = Append(@, [depth |-> sbuf.depth, buf |-> sbuf.buf,
                                                    capped |-> TRUE, seen_before |-> FALSE,
                                                    ngram_size |-> 0])]
             st2 == alert_write(st1, callno, "MAX_DEPTH_REACHED_ERROR_FEATURE",
                                "MAX_DEPTH_REACHED_ERROR_CONTEXT", FALSE)
         IN  IF st2.thrown # "" THEN st2
             ELSE [st2 EXCEPT !.deleted = Append(@, callno)]
    ELSE LET seen_before == hash_buf(sbuf.buf) \in st.seen
             st1 == [st EXCEPT !.mds = Max2(@, sbuf.depth),
                               !.seen = @ \cup {hash_buf(sbuf.buf)},
                               !.calls = Append(@, [depth |-> sbuf.depth, buf |-> sbuf.buf,
                                                    capped |-> FALSE,
                                                    seen_before |-> seen_before,
                                                    ngram_size |-> find_ngram_size(sbuf.buf, max_ngram)])]
             st2 == IF seen_before /\ dup_data_alerts
                    THEN alert_write(st1, callno, <<"DUP SBUF ", hash_buf(sbuf.buf)>>, "<buflen>", FALSE)
                    ELSE st1
             st3 == IF st2.thrown # "" THEN st2 ELSE dispatch(st2, sbuf, callno, 1, beh)
         IN  IF st3.thrown # "" THEN st3
             ELSE [st3 EXCEPT !.deleted = Append(@, callno)]

(***************************************************************************)
(* scanner_set::apply_scanner_commands                                     *)
(***************************************************************************)
ALL_SCANNERS == "all"

\* sc.scanner_commands as the driver may have queued them
CommandLists ==
    { <<>>,
      <<[scannerName |-> ALL_SCANNERS, command |-> "DISABLE"],
        [scannerName |-> "beta", command |-> "ENABLE"]>> }

\* the configurations the driver constructs the set with: commands are queued
\* with the plain flags
Configs ==
    { c \in [flags : FlagSets, scanner_commands : CommandLists] :
        (c.flags.no_alert \/ c.flags.disabled \/ c.flags.pedantic) => c.scanner_commands = <<>> }

\* scanner_set::get_scanner_by_name: the scanners of that name, in map order
scanners_named(name) == {s \in DOMAIN scanner_info_db : scanner_info_db[s].name = name}

\* the loop with a command that names no scanner passed over
RECURSIVE run_commands_missing_skipped(_, _)
run_commands_missing_skipped(en, i) ==
    IF i > Len(scanner_commands) THEN [enabled |-> en, thrown |-> ""]
    ELSE LET cmd == scanner_commands[i] IN
         IF cmd.scannerName = ALL_SCANNERS
         THEN LET targets == {s \in DOMAIN scanner_info_db : ~scanner_info_db[s].no_all}
              IN  run_commands_missing_skipped(IF cmd.command = "ENABLE" THEN en \cup targets
                                                                     ELSE en \ targets, i + 1)
         ELSE IF scanners_named(cmd.scannerName) = {}
              THEN run_commands_missing_skipped(en, i + 1)
              ELSE LET scanner == Min(scanners_named(cmd.scannerName))
                   IN  run_commands_missing_skipped(
                          IF cmd.command = "ENABLE" THEN en \cup {scanner}
                                                    ELSE en \ {scanner}, i + 1)

\* the loop with the test of no_all left out of the ALL_SCANNERS branch
RECURSIVE run_commands_no_all_ignored(_, _)
run_commands_no_all_ignored(en, i) ==
    IF i > Len(scanner_commands) THEN [enabled |-> en, thrown |-> ""]
    ELSE LET cmd == scanner_commands[i] IN
         IF cmd.scannerName = ALL_SCANNERS
         THEN LET targets == DOMAIN scanner_info_db
              IN  run_commands_no_all_ignored(IF cmd.command = "ENABLE" THEN en \cup targets
                                                                    ELSE en \ targets, i + 1)
         ELSE IF scanners_named(cmd.scannerName) = {}
              THEN [enabled |-> en, thrown |-> "NoSuchScanner"]
              ELSE LET scanner == Min(scanners_named(cmd.scannerName))
                   IN  run_commands_no_all_ignored(
                          IF cmd.command = "ENABLE" THEN en \cup {scanner}
                                                    ELSE en \ {scanner}, i + 1)

\* the loop over sc.scanner_commands from command i on, on the enabled set en
RECURSIVE run_commands(_, _)
run_commands(en, i) ==
    IF i > Len(scanner_commands) THEN [enabled |-> en, thrown |-> ""]
    ELSE LET cmd == scanner_commands[i] IN
         IF cmd.scannerName = ALL_SCANNERS
         THEN LET targets == {s \in DOMAIN scanner_info_db : ~scanner_info_db[s].no_all}
              IN  run_commands(IF cmd.command = "ENABLE" THEN en \cup targets
                                                         ELSE en \ targets, i + 1)
         ELSE IF scanners_named(cmd.scannerName) = {}
              THEN [enabled |-> en, thrown |-> "NoSuchScanner"]
              ELSE LET scanner == Min(scanners_named(cmd.scannerName))
                   IN  run_commands(IF cmd.command = "ENABLE" THEN en \cup {scanner}
                                                              ELSE en \ {scanner}, i + 1)

\* what the second loop creates, in its order: for every scanner of the database
\* its feature recorders, then its histograms
steps_of(info) ==
    [i \in 1..Len(info.feature_defs) |-> [kind |-> "feature", name |-> info.feature_defs[i]]]
    \o [i \in 1..Len(info.histogram_defs) |-> [kind |-> "histogram",
                                               name |-> info.histogram_defs[i]]]

RECURSIVE creation_steps(_)
creation_steps(s) ==
    IF s > MaxScanners THEN <<>>
    ELSE (IF s \in DOMAIN scanner_info_db THEN steps_of(scanner_info_db[s]) ELSE <<>>)
         \o creation_steps(s + 1)

\* the creations from step i on; r holds frm, histograms and the exception thrown.
\* No recorder has written a feature before PHASE_ENABLED, so histogram_add's
\* test of features_written passes.
RECURSIVE run_creation(_, _, _)
run_creation(r, steps, i) ==
    IF r.thrown # "" \/ i > Len(steps) THEN r
    ELSE IF steps[i].kind = "feature"
         THEN LET c == create_feature_recorder(r.frm, steps[i].name)
              IN  run_creation([r EXCEPT !.frm = c.frm, !.thrown = c.thrown], steps, i + 1)
         ELSE IF steps[i].name \notin r.frm
              THEN [r EXCEPT !.thrown = "NoSuchFeatureRecorder"]
              ELSE run_creation([r EXCEPT !.histograms = Append(@, steps[i].name)], steps, i + 1)

\* fs.create_alert_recorder()
create_alert_recorder(r) ==
    IF ~flags.no_alert THEN create_feature_recorder(r, ALERT_RECORDER_NAME)
    ELSE [frm |-> r, thrown |-> ""]

\* the whole of apply_scanner_commands: the phase, the enabled set, the recorders,
\* the histograms afterwards, and the exception thrown
apply_result ==
    IF current_phase # "PHASE_INIT"
    THEN [phase |-> current_phase, enabled |-> enabled_scanners, frm |-> frm,
          histograms |-> histograms, thrown |-> "runtime_error"]
    ELSE LET cmds == run_commands(enabled_scanners, 1) IN
         IF cmds.thrown # ""
         THEN [phase |-> current_phase, enabled |-> cmds.enabled, frm |-> frm,
               histograms |-> histograms, thrown |-> cmds.thrown]
         ELSE LET al == create_alert_recorder(frm)
                  cr == run_creation([frm |-> al.frm, histograms |-> histograms,
                                      thrown |-> al.thrown], creation_steps(1), 1)
              IN  [phase |-> IF cr.thrown = "" THEN "PHASE_ENABLED" ELSE current_phase,
                   enabled |-> cmds.enabled, frm |-> cr.frm,
                   histograms |-> cr.histograms, thrown |-> cr.thrown]

(***************************************************************************)
(* The operations of scanner_set, each called by the driver in any state   *)
(***************************************************************************)
Result(thrown) == IF thrown = "" THEN "ok" ELSE thrown

LastOf(op, arg, thrown, st) ==
    [op |-> op, arg |-> arg, result |-> Result(thrown), calls |-> st.calls,
     invoked |-> st.invoked, failures |-> st.failures, alerts |-> st.alerts,
     deleted |-> st.deleted, steps |-> <<>>]

\* no thread is in check_previously_processed
CpIdle ==
    /\ cp = [t \in Threads |-> [pc |-> "idle", sha1 |-> <<>>]]
    /\ cp_log = <<>>

\* a recorder that carves nothing, with no thread in carve
CvIdle ==
    /\ carve_mode = "CARVE_NONE"
    /\ do_not_carve_encoding = <<>>
    /\ carve_cache = {}
    /\ carved_file_count = 0
    /\ files = <<>>
    /\ sink = <<>>
    /\ cv = [t \in Threads |-> [pc |-> "idle"]]
    /\ carve_log = <<>>

\* no sbuf_t object has been constructed
SbIdle ==
    /\ sb = [i \in 1..MaxSbufs |-> [state |-> "unused", ctor |-> "", parent |-> 0,
                                     children |-> 0, added |-> 0]]
    /\ sb_status = "running"

\* no typed read has been made
RdIdle == rd = [buf |-> <<>>, op |-> "none"]

\* nothing has been quoted
QsIdle == qs = [pc |-> "none"]

\* a set with no feature recorder
FrIdle ==
    /\ outdir = ""
    /\ recorders = <<>>
    /\ stop_list = [configured |-> FALSE, words |-> {}]
    /\ stop_list_recorder = ""
    /\ wlast = [op |-> "none"]

DtIdle == sb_owns = {} /\ sb_freed = {} /\ sb_errors = 0

HsIdle == hasher = [op |-> "none"]

OrdIdle == scanners = <<>>

WtIdle == wthr = <<>>

MkIdle == mk = [op |-> "none"]

GlIdle == gl = [op |-> "none"]

HmIdle == hm = [op |-> "none"]

DpIdle == dp = <<>>

SwIdle == sw = [pc |-> "none"]

YIdle == MkIdle /\ GlIdle /\ HmIdle /\ DpIdle /\ SwIdle

ExtIdle == DtIdle /\ HsIdle /\ OrdIdle /\ WtIdle /\ YIdle

LibIdle == RdIdle /\ QsIdle /\ FrIdle /\ ExtIdle

\* the scanner set as constructed
SsInit ==
    /\ flags = [no_alert |-> FALSE, disabled |-> FALSE, pedantic |-> FALSE,
                record_files |-> TRUE, record_sql |-> FALSE]
    /\ scanner_commands = <<>>
    /\ current_phase = "PHASE_INIT"
    /\ scanner_info_db = <<>>
    /\ enabled_scanners = {}
    /\ frm = {}
    /\ histograms = <<>>
    /\ seen_set = {}
    /\ max_depth_seen = 0
    /\ last = [op |-> "scanner_set"]

Init ==
    /\ CpIdle /\ CvIdle /\ SbIdle /\ LibIdle
    /\ \E c \in Configs : flags = c.flags /\ scanner_commands = c.scanner_commands
    /\ current_phase = "PHASE_INIT"
    /\ scanner_info_db = <<>>
    /\ enabled_scanners = {}
    /\ frm = {}
    /\ histograms = <<>>
    /\ seen_set = {}
    /\ max_depth_seen = 0
    /\ last = LastOf("scanner_set", <<>>, "", EmptyTrace)

\* add_scanner without the test for a scanner that is already loaded
add_scanner_again(s, info) ==
    IF info = <<>>
    THEN /\ last' = LastOf("add_scanner", s, "runtime_error", EmptyTrace)
         /\ UNCHANGED <<flags, scanner_commands, current_phase, scanner_info_db,
                        enabled_scanners, frm, histograms, seen_set, max_depth_seen,
                        cpvars, cvvars, sbvars, libvars>>
    ELSE /\ scanner_info_db' = [x \in DOMAIN scanner_info_db \cup {s} |->
                                   IF x = s THEN info ELSE scanner_info_db[x]]
         /\ enabled_scanners' = IF info.default_enabled THEN enabled_scanners \cup {s}
                                                        ELSE enabled_scanners
         /\ last' = LastOf("add_scanner", s, "", EmptyTrace)
         /\ UNCHANGED <<flags, scanner_commands, current_phase, frm, histograms,
                        seen_set, max_depth_seen, cpvars, cvvars, sbvars, libvars>>

\* add_scanner(scanner): the scanner is called with PHASE_INIT and registers info,
\* or registers nothing (info = <<>>, sp.info left null)
add_scanner(s, info) ==
    IF s \in DOMAIN scanner_info_db
    THEN /\ last' = LastOf("add_scanner", s, "runtime_error", EmptyTrace)
         /\ UNCHANGED <<flags, scanner_commands, current_phase, scanner_info_db,
                        enabled_scanners, frm, histograms, seen_set, max_depth_seen,
                   cpvars, cvvars, sbvars, libvars>>
    ELSE IF info = <<>>
    THEN /\ last' = LastOf("add_scanner", s, "runtime_error", EmptyTrace)
         /\ UNCHANGED <<flags, scanner_commands, current_phase, scanner_info_db,
                        enabled_scanners, frm, histograms, seen_set, max_depth_seen,
                   cpvars, cvvars, sbvars, libvars>>
    ELSE /\ scanner_info_db' = [x \in DOMAIN scanner_info_db \cup {s} |->
                                   IF x = s THEN info ELSE scanner_info_db[x]]
         /\ enabled_scanners' = IF info.default_enabled THEN enabled_scanners \cup {s}
                                                        ELSE enabled_scanners
         /\ last' = LastOf("add_scanner", s, "", EmptyTrace)
         /\ UNCHANGED <<flags, scanner_commands, current_phase, frm, histograms,
                        seen_set, max_depth_seen,
                   cpvars, cvvars, sbvars, libvars>>

apply_scanner_commands ==
    /\ current_phase' = apply_result.phase
    /\ enabled_scanners' = apply_result.enabled
    /\ frm' = apply_result.frm
    /\ histograms' = apply_result.histograms
    /\ last' = LastOf("apply_scanner_commands", <<>>, apply_result.thrown, EmptyTrace)
    /\ UNCHANGED <<flags, scanner_commands, scanner_info_db, seen_set, max_depth_seen,
                   cpvars, cvvars, sbvars, libvars>>

\* phase_scan without its test of the phase
phase_scan_unguarded ==
    /\ current_phase' = "PHASE_SCAN"
    /\ last' = LastOf("phase_scan", <<>>, "", EmptyTrace)
    /\ UNCHANGED <<flags, scanner_commands, scanner_info_db, enabled_scanners, frm,
                   histograms, seen_set, max_depth_seen,
                   cpvars, cvvars, sbvars, libvars>>

phase_scan ==
    /\ current_phase' = IF current_phase = "PHASE_ENABLED" THEN "PHASE_SCAN" ELSE current_phase
    /\ last' = LastOf("phase_scan", <<>>,
                      IF current_phase = "PHASE_ENABLED" THEN "" ELSE "runtime_error",
                      EmptyTrace)
    /\ UNCHANGED <<flags, scanner_commands, scanner_info_db, enabled_scanners, frm,
                   histograms, seen_set, max_depth_seen,
                   cpvars, cvvars, sbvars, libvars>>

\* the state a finished top-level process_sbuf call with trace st leaves
process_sbuf_done(st) ==
    /\ seen_set' = st.seen
    /\ max_depth_seen' = st.mds
    /\ last' = LastOf("process_sbuf", <<>>, st.thrown, st)
    /\ UNCHANGED <<flags, scanner_commands, current_phase, scanner_info_db,
                   enabled_scanners, frm, histograms,
                   cpvars, cvvars, sbvars, libvars>>

\* process_sbuf(sbufp) called by the driver; beh is what each scanner does in it
process_sbuf_call(sbuf, beh) == process_sbuf_done(process_sbuf(EmptyTrace, sbuf, beh))

\* the enabled scanners in the order of the set
RECURSIVE shutdown_messages(_)
shutdown_messages(s) ==
    IF s > MaxScanners THEN <<>>
    ELSE (IF s \in enabled_scanners THEN <<[call |-> 0, scanner |-> s]>> ELSE <<>>)
         \o shutdown_messages(s + 1)

\* what shutdown does after the phase is set, in the order of its statements:
\* the message to each enabled scanner, the shutdown of the recorders of the
\* set, the generation of their histograms and, when the set was given a
\* writer, the scanner statistics
shutdown_steps(writer) ==
    [i \in DOMAIN shutdown_messages(1) |->
        [step |-> "PHASE_SHUTDOWN", scanner |-> shutdown_messages(1)[i].scanner, frm |-> {}]]
    \o <<[step |-> "feature_recorders_shutdown", scanner |-> 0, frm |-> frm],
          [step |-> "histograms_generate", scanner |-> 0, frm |-> frm]>>
    \o (IF writer THEN <<[step |-> "scanner_stats", scanner |-> 0, frm |-> {}]>> ELSE <<>>)

shutdown ==
    IF current_phase # "PHASE_SCAN"
    THEN /\ last' = LastOf("shutdown", <<>>, "runtime_error", EmptyTrace)
         /\ UNCHANGED <<flags, scanner_commands, current_phase, scanner_info_db,
                        enabled_scanners, frm, histograms, seen_set, max_depth_seen,
                   cpvars, cvvars, sbvars, libvars>>
    ELSE /\ current_phase' = "PHASE_SHUTDOWN"
         /\ \E writer \in BOOLEAN :
               last' = [LastOf("shutdown", <<>>, "",
                               [EmptyTrace EXCEPT !.invoked = shutdown_messages(1)])
                        EXCEPT !.steps = shutdown_steps(writer)]
         /\ UNCHANGED <<flags, scanner_commands, scanner_info_db, enabled_scanners, frm,
                        histograms, seen_set, max_depth_seen,
                   cpvars, cvvars, sbvars, libvars>>

\* what the scanners that can be called do in one call of process_sbuf
BehaviourChoices ==
    IF current_phase = "PHASE_SCAN"
    THEN {b \in [enabled_scanners \cap DOMAIN scanner_info_db ->
                     UNION {Behaviours(s) : s \in ScannerIds}] :
             \A s \in DOMAIN b : b[s] \in Behaviours(s)}
    ELSE {<<>>}

Next ==
    \/ \E s \in ScannerIds : \E info \in InfoSet(s) \cup {<<>>} : add_scanner(s, info)
    \/ apply_scanner_commands
    \/ phase_scan
    \/ \E beh \in BehaviourChoices : \E sbuf \in Sbufs : process_sbuf_call(sbuf, beh)
    \/ shutdown

Spec == Init /\ [][Next]_vars

(***************************************************************************)
(* Properties of the scanner set                                           *)
(***************************************************************************)

\* how often call c of the trace L invoked scanner s
InvokedCount(L, c, s) ==
    Cardinality({i \in DOMAIN L.invoked : L.invoked[i] = [call |-> c, scanner |-> s]})

\* call c of the trace L ran to its end (its sbuf was deleted)
Completed(L, c) == \E i \in DOMAIN L.deleted : L.deleted[i] = c

\* the loop of call c got as far as scanner s
Reached(L, c, s) ==
    \/ Completed(L, c)
    \/ \E i \in DOMAIN L.invoked : L.invoked[i].call = c /\ L.invoked[i].scanner >= s

\* the alert records of call c with this feature
AlertCount(L, c, feature) ==
    Cardinality({i \in DOMAIN L.alerts : L.alerts[i].call = c /\ L.alerts[i].feature = feature})

\* the hashes in the seen set when call c of the trace L of a step began
SeenAt(L, c) ==
    seen_set \cup {hash_buf(L.calls[j].buf) : j \in {i \in 1..(c - 1) : L.calls[i].depth < max_depth}}

\* the four conditions of the dispatch filter
Eligible(s, depth, ngram, seen) ==
    /\ s \in enabled_scanners
    /\ ~(ngram > 0 /\ ~scanner_info_db[s].scan_ngram_buffer)
    /\ ~(depth > 0 /\ scanner_info_db[s].depth0_only)
    /\ ~(seen /\ ~scanner_info_db[s].scan_seen_before)

\* C1: current_phase only moves PHASE_INIT -> PHASE_ENABLED -> PHASE_SCAN ->
\* PHASE_SHUTDOWN, one phase at a time: only apply_scanner_commands leaves INIT,
\* only phase_scan leaves ENABLED, only shutdown leaves SCAN; the phase never
\* decreases and never skips a phase.
C1_PhaseMonotonic ==
    [][ current_phase' # current_phase =>
          /\ PhaseRank(current_phase') = PhaseRank(current_phase) + 1
          /\ last'.result = "ok"
          /\ current_phase = "PHASE_INIT" => last'.op = "apply_scanner_commands"
          /\ current_phase = "PHASE_ENABLED" => last'.op = "phase_scan"
          /\ current_phase = "PHASE_SCAN" => last'.op = "shutdown" ]_vars

\* the set went through all its phases: shutdown has just succeeded
C1_Witness ==
    current_phase = "PHASE_SHUTDOWN" /\ last.op = "shutdown" /\ last.result = "ok"

\* C2: no phase-labelled operation succeeds outside its phase: add_scanner
\* succeeds only in PHASE_INIT, process_sbuf and shutdown only in PHASE_SCAN.
C2_PhaseLabelled ==
    [][ last'.result = "ok" =>
          /\ last'.op = "add_scanner" => current_phase = "PHASE_INIT"
          /\ last'.op \in {"process_sbuf", "shutdown"} => current_phase = "PHASE_SCAN" ]_vars

\* C2, the part the code enforces: process_sbuf and shutdown succeed only in
\* PHASE_SCAN; apply_scanner_commands only in PHASE_INIT, phase_scan only in
\* PHASE_ENABLED.
C2_PhaseChecked ==
    [][ last'.result = "ok" =>
          /\ last'.op \in {"process_sbuf", "shutdown"} => current_phase = "PHASE_SCAN"
          /\ last'.op = "apply_scanner_commands" => current_phase = "PHASE_INIT"
          /\ last'.op = "phase_scan" => current_phase = "PHASE_ENABLED" ]_vars

\* a scanner was registered after the set had left PHASE_INIT
C2_Witness ==
    /\ last.op = "add_scanner" /\ last.result = "ok"
    /\ current_phase = "PHASE_SHUTDOWN"

\* a scanner invoked n times: never twice, only when eligible, and once when it
\* is eligible and the loop reached it
InvokedIffEligible(n, eligible, reached) ==
    /\ n <= 1
    /\ n = 1 => eligible
    /\ (eligible /\ reached) => n = 1

\* call c of the trace L, on a buffer of this ngram size that was or was not
\* seen before, invoked the scanners the filter lets through
FilterDecides(L, c, ngram, seen) ==
    \A s \in DOMAIN scanner_info_db :
       InvokedIffEligible(InvokedCount(L, c, s),
                          Eligible(s, L.calls[c].depth, ngram, seen),
                          Reached(L, c, s))

EligibleIn(L, c, s) ==
    Eligible(s, L.calls[c].depth, L.calls[c].ngram_size, L.calls[c].seen_before)

\* the alert record of a scanner failure
FailureAlerts(L, f) == AlertCount(L, f.call, <<"scanner=", scanner_info_db[f.scanner].name>>)

AlertWritten(what) ==
    /\ ALERT_RECORDER_NAME \in frm
    /\ ~flags.disabled
    /\ ~(flags.pedantic /\ what = "std_long")

\* the alert of a failure is refused and the refusal leaves the catch block
AlertThrows(what) ==
    ALERT_RECORDER_NAME \in frm /\ ~flags.disabled /\ flags.pedantic /\ what = "std_long"

check_for_presence_and_insert(set, s) == [present |-> s \in set, set |-> set \cup {s}]

\* a thread enters check_previously_processed(sbuf) and computes the sha1 of the
\* bytes of the sbuf
cpp_hash(t, buf) ==
    /\ cp[t].pc = "idle"
    /\ Len(cp_log) + Cardinality({u \in Threads : cp[u].pc # "idle"}) < MaxChecks
    /\ cp' = [cp EXCEPT ![t] = [pc |-> "hashed", sha1 |-> hash_buf(buf)]]
    /\ UNCHANGED <<ssvars, libvars, cp_log, cvvars, sbvars>>

\* the test of the seen set without the insertion
cpp_test_only(t) ==
    /\ cp[t].pc = "hashed"
    /\ cp_log' = Append(cp_log, [thread |-> t, sha1 |-> cp[t].sha1,
                                 ret |-> cp[t].sha1 \in seen_set])
    /\ cp' = [cp EXCEPT ![t] = [pc |-> "idle", sha1 |-> <<>>]]
    /\ UNCHANGED <<ssvars, libvars, cvvars, sbvars>>

\* return seen_set.check_for_presence_and_insert(sha1)
cpp_insert(t) ==
    /\ cp[t].pc = "hashed"
    /\ LET r == check_for_presence_and_insert(seen_set, cp[t].sha1)
       IN  /\ seen_set' = r.set
           /\ cp_log' = Append(cp_log, [thread |-> t, sha1 |-> cp[t].sha1, ret |-> r.present])
    /\ cp' = [cp EXCEPT ![t] = [pc |-> "idle", sha1 |-> <<>>]]
    /\ UNCHANGED <<flags, scanner_commands, current_phase, scanner_info_db,
                   enabled_scanners, frm, histograms, max_depth_seen, last,
                   cvvars, sbvars, libvars>>

InitSeen == SsInit /\ CpIdle /\ CvIdle /\ SbIdle /\ LibIdle

NextSeen ==
    \/ \E t \in Threads : \E buf \in Contents : cpp_hash(t, buf)
    \/ \E t \in Threads : cpp_insert(t)

SpecSeen == InitSeen /\ [][NextSeen]_vars

\* the calls on hash h that returned the value ret
Returned(h, ret) == {i \in DOMAIN cp_log : cp_log[i].sha1 = h /\ cp_log[i].ret = ret}

\* C6: check_previously_processed returns false exactly once per distinct
\* content hash, in any interleaving of the calls: of the calls on one hash that
\* have returned, the first returned false and every other one true, and a hash
\* is in seen_set exactly when a call on it has returned.
C6_SeenOnce ==
    /\ \A i \in DOMAIN cp_log :
          cp_log[i].ret = (\E j \in 1..(i - 1) : cp_log[j].sha1 = cp_log[i].sha1)
    /\ \A buf \in Contents :
          /\ Cardinality(Returned(hash_buf(buf), FALSE)) =
                (IF hash_buf(buf) \in seen_set THEN 1 ELSE 0)
          /\ Returned(hash_buf(buf), TRUE) # {} => hash_buf(buf) \in seen_set

\* two threads were in the call on the same bytes at once: one has returned
\* false, the other has hashed and not yet tested; a third call returned true
C6_Witness ==
    \E t \in Threads, u \in Threads, i \in DOMAIN cp_log, j \in DOMAIN cp_log :
       /\ t # u
       /\ cp[u].pc = "hashed"
       /\ cp_log[i].thread = t /\ cp_log[i].sha1 = cp[u].sha1 /\ ~cp_log[i].ret
       /\ cp_log[j].sha1 = cp[u].sha1 /\ cp_log[j].ret

(***************************************************************************)
(* sbuf_t: the constructors that make a view of another sbuf, and the      *)
(* destructor. sb[i].parent is the parent pointer (0 for nullptr),         *)
(* sb[i].children the counter; sb[i].added remembers what the constructor  *)
(* of i added to the counter of its parent.                                *)
(***************************************************************************)
SbufIds == 1..MaxSbufs

\* the storage the next constructor runs on
FreshSbuf == Min({i \in SbufIds : sb[i].state = "unused"} \cup {MaxSbufs + 1})

\* the objects constructed and not yet destroyed
Constructed == {i \in SbufIds : sb[i].state \in {"live", "moved_from"}}

\* sbuf_t::highest_parent: the end of the chain of parent pointers
RECURSIVE highest_parent(_)
highest_parent(i) == IF sb[i].parent = 0 THEN i ELSE highest_parent(sb[i].parent)

\* void add_child(const sbuf_t& child) const { children += 1; }
add_child(p) == sb[p].children + 1

\* void del_child(const sbuf_t& child) const { children -= 1; assert(children >= 0); }
del_child(p) == sb[p].children - 1

\* what is left of the process after assert(children >= 0) on the value c: a
\* build with assertions aborts on a negative value, one with NDEBUG goes on
AssertOutcomes(c) == IF c >= 0 THEN {"running"} ELSE {"SIGABRT", "running"}

\* sbuf_t(const char *str), map_file, sbuf_malloc: an sbuf that is no view
sbuf_root(i) ==
    /\ sb_status = "running"
    /\ i = FreshSbuf /\ i \in SbufIds
    /\ sb' = [sb EXCEPT ![i] = [state |-> "live", ctor |-> "root", parent |-> 0,
                                children |-> 0, added |-> 0]]
    /\ UNCHANGED <<ssvars, libvars, cpvars, cvvars, sb_status>>

\* a view of src constructed with parent(src.highest_parent()) and a body that
\* calls parent->add_child(*this)
counted_view(i, src, ctor) ==
    LET p == highest_parent(src) IN
    /\ sb_status = "running"
    /\ i = FreshSbuf /\ i \in SbufIds
    /\ sb[src].state = "live"
    /\ sb' = [sb EXCEPT ![i] = [state |-> "live", ctor |-> ctor, parent |-> p,
                                children |-> 0, added |-> 1],
                        ![p].children = add_child(p)]
    /\ UNCHANGED <<ssvars, libvars, cpvars, cvvars, sb_status>>

\* sbuf_t(const pos0_t &that_pos0, const sbuf_t &that_sbuf)
sbuf_relabel(i, src) == counted_view(i, src, "relabel")

\* sbuf_t(const sbuf_t &sbuf, size_t off, size_t len)
sbuf_subset(i, src) == counted_view(i, src, "subset")

\* sbuf_t(const sbuf_t &that_sbuf, size_t off), which operator+ returns: the
\* parent is set and the body is empty
sbuf_offset(i, src) ==
    /\ sb_status = "running"
    /\ i = FreshSbuf /\ i \in SbufIds
    /\ sb[src].state = "live"
    /\ sb' = [sb EXCEPT ![i] = [state |-> "live", ctor |-> "offset",
                                parent |-> highest_parent(src),
                                children |-> 0, added |-> 0]]
    /\ UNCHANGED <<ssvars, libvars, cpvars, cvvars, sb_status>>

\* sbuf_t(sbuf_t &&that): parent->del_child(that); parent->add_child(*this).
\* that keeps its parent pointer. With that.parent null both calls go through a
\* null pointer and the process dies.
sbuf_move(i, src) ==
    /\ sb_status = "running"
    /\ i = FreshSbuf /\ i \in SbufIds
    /\ sb[src].state = "live"
    /\ IF sb[src].parent = 0
       THEN /\ sb_status' = "SIGSEGV"
            /\ sb' = sb
       ELSE LET p == sb[src].parent IN
            /\ sb_status' \in AssertOutcomes(del_child(p))
            /\ sb' = IF sb_status' = "running"
                     THEN [sb EXCEPT ![i] = [state |-> "live", ctor |-> "move", parent |-> p,
                                             children |-> 0, added |-> 0],
                                     ![src].state = "moved_from"]
                     ELSE [sb EXCEPT ![p].children = del_child(p)]
    /\ UNCHANGED <<ssvars, libvars, cpvars, cvvars>>

\* ~sbuf_t: if (parent) parent->del_child(*this). The views of an sbuf are
\* destroyed before it.
sbuf_destroy(i) ==
    /\ sb_status = "running"
    /\ i \in Constructed
    /\ \A j \in Constructed : sb[j].parent # i
    /\ IF sb[i].parent = 0
       THEN /\ sb' = [sb EXCEPT ![i].state = "destroyed"]
            /\ sb_status' = "running"
       ELSE LET p == sb[i].parent IN
            /\ sb' = [sb EXCEPT ![i].state = "destroyed", ![p].children = del_child(p)]
            /\ sb_status' \in AssertOutcomes(del_child(p))
    /\ UNCHANGED <<ssvars, libvars, cpvars, cvvars>>

InitSbuf == SsInit /\ CpIdle /\ CvIdle /\ SbIdle /\ LibIdle

NextSbuf ==
    \/ \E i \in SbufIds : sbuf_root(i)
    \/ \E i \in SbufIds, src \in SbufIds : sbuf_relabel(i, src)
    \/ \E i \in SbufIds, src \in SbufIds : sbuf_subset(i, src)
    \/ \E i \in SbufIds, src \in SbufIds : sbuf_offset(i, src)
    \/ \E i \in SbufIds, src \in SbufIds : sbuf_move(i, src)
    \/ \E i \in SbufIds : sbuf_destroy(i)

SpecSbuf == InitSbuf /\ [][NextSbuf]_vars

\* the live views that descend from the sbuf r
LiveViews(r) == {j \in SbufIds : j # r /\ sb[j].state = "live" /\ highest_parent(j) = r}

\* C9: for every child view made by a child constructor (subset, offset-only or
\* operator+, relabel, move) the counter of its root is >= 1 as long as the view
\* lives, and destroying the view takes back what constructing it added.
C9_ChildrenHeld ==
    [][ /\ \A j \in SbufIds :
              (sb'[j].state = "live" /\ sb'[j].parent # 0) => sb'[sb'[j].parent].children >= 1
        /\ \A j \in SbufIds :
              (sb[j].state = "live" /\ sb'[j].state = "destroyed" /\ sb[j].parent # 0
                 /\ sb[j].ctor # "move")
                 => /\ sb[j].added = 1
                    /\ sb'[sb[j].parent].children = sb[sb[j].parent].children - 1 ]_vars

\* C10: the counter of a root equals the number of live views that descend from
\* it, and is never negative.
C10_ChildrenCounted ==
    \A r \in SbufIds :
       (sb[r].state = "live" /\ sb[r].parent = 0) =>
          /\ sb[r].children = Cardinality(LiveViews(r))
          /\ sb[r].children >= 0

(***************************************************************************)
(* feature_recorder::carve, called by threads on one recorder              *)
(***************************************************************************)

\* the stage names of a pos0 path; its other tokens are offsets
AlphaTokens == {"HIBER", "ZIP"}

\* pos0.path as the sequence of its dash-separated tokens
CarvePaths == { <<>>, <<"1000", "ZIP">>, <<"1000", "HIBER", "33423", "ZIP">> }

\* the data handed to carve: where they were found and their bytes
CarveData ==
    { d \in [path : CarvePaths, bytes : {"X", "Y"}] :
        d.bytes = "Y" => d.path = <<"1000", "HIBER", "33423", "ZIP">> }

\* pos0_t::alphaPart: the alphabetic part of the path, its stage names in order
\* (HIBER/ZIP for 1000-HIBER-33423-ZIP)
alphaPart(path) == SelectSeq(path, LAMBDA tok : tok \in AlphaTokens)

\* feature_recorder::hash(data): fs.hasher applied to the bytes
carve_hash(d) == <<"hash", d.bytes>>

\* The strings carve returns and records are sequences of their parts: a path is
\* <<name, thousands, pos0, ext>>, std::string() is <<>>.
\* feature_recorder::NO_CARVED_FILE and feature_recorder::CACHED
NO_CARVED_FILE == <<"NO_CARVED_FILE">>

CACHED == <<"CACHED">>

\* the recorder of the model and the extension the callers pass
RecorderName == "jpeg"

CarveExt == ".bin"

\* the switch on carve_mode without the comparison with do_not_carve_encoding
carve_filter_no_encoding(mode, path) ==
    IF mode = "CARVE_NONE" THEN [carve |-> FALSE, ret |-> NO_CARVED_FILE]
    ELSE IF mode = "CARVE_ENCODED" /\ Len(path) = 0 THEN [carve |-> FALSE, ret |-> NO_CARVED_FILE]
    ELSE [carve |-> TRUE, ret |-> <<>>]

\* the switch on carve_mode: whether carve goes on, and what it returns if not
carve_filter(mode, path) ==
    IF mode = "CARVE_NONE" THEN [carve |-> FALSE, ret |-> NO_CARVED_FILE]
    ELSE IF mode = "CARVE_ENCODED" /\ Len(path) = 0 THEN [carve |-> FALSE, ret |-> NO_CARVED_FILE]
    ELSE IF mode = "CARVE_ENCODED" /\ alphaPart(path) = do_not_carve_encoding
         THEN [carve |-> FALSE, ret |-> <<>>]
    ELSE [carve |-> TRUE, ret |-> <<>>]

\* a test of the carve cache that always misses
carve_cache_miss(h) == [present |-> FALSE, set |-> carve_cache \cup {h}]

\* bool in_cache = carve_cache.check_for_presence_and_insert(carved_hash_hexvalue)
carve_cache_insert(h) == check_for_presence_and_insert(carve_cache, h)

\* the calls of carve begun so far
CarvesBegun == Len(carve_log) + Cardinality({u \in Threads : cv[u].pc # "idle"})

\* a thread enters carve(header, data, ext, mtime): the switch, the hash and the
\* test-and-insert, which is the first access to shared state
carve_enter(t, d) ==
    /\ cv[t].pc = "idle"
    /\ CarvesBegun < MaxCarves
    /\ LET f == carve_filter(carve_mode, d.path)
           r == carve_cache_insert(carve_hash(d))
           id == CarvesBegun + 1
       IN  IF ~f.carve
           THEN /\ carve_log' = Append(carve_log, [id |-> id, thread |-> t, data |-> d,
                                                   ret |-> f.ret, thrown |-> ""])
                /\ UNCHANGED <<carve_cache, cv>>
           ELSE /\ carve_cache' = r.set
                /\ cv' = [cv EXCEPT ![t] =
                            [pc |-> IF r.present THEN "named" ELSE "missed", id |-> id,
                             data |-> d, in_cache |-> r.present, rel |-> CACHED]]
                /\ UNCHANGED carve_log
    /\ UNCHANGED <<ssvars, libvars, cpvars, sbvars, carve_mode, do_not_carve_encoding,
                   carved_file_count, files, sink>>

\* int64_t myfileNumber = carved_file_count++, and the path made of it:
\* name / thousands / pos0.str() + ext
carve_number(t) ==
    /\ cv[t].pc = "missed"
    /\ carved_file_count' = carved_file_count + 1
    /\ cv' = [cv EXCEPT ![t].pc = "named",
                        ![t].rel = <<RecorderName, carved_file_count \div 1000,
                                     cv[t].data.path, CarveExt>>]
    /\ UNCHANGED <<ssvars, libvars, cpvars, sbvars, carve_mode, do_not_carve_encoding,
                   carve_cache, files, sink, carve_log>>

\* this->write(data.pos0, carved_relative_path, xml.str()); a cached carve
\* then returns
carve_record(t) ==
    /\ cv[t].pc = "named"
    /\ sink' = IF flags.disabled THEN sink
               ELSE Append(sink, [pos0 |-> cv[t].data.path, feature |-> cv[t].rel,
                                  filename |-> ~cv[t].in_cache,
                                  hashdigest |-> carve_hash(cv[t].data)])
    /\ IF cv[t].in_cache
       THEN /\ carve_log' = Append(carve_log, [id |-> cv[t].id, thread |-> t,
                                               data |-> cv[t].data, ret |-> cv[t].rel,
                                               thrown |-> ""])
            /\ cv' = [cv EXCEPT ![t] = [pc |-> "idle"]]
       ELSE /\ cv' = [cv EXCEPT ![t].pc = "recorded"]
            /\ UNCHANGED carve_log
    /\ UNCHANGED <<ssvars, libvars, cpvars, sbvars, carve_mode, do_not_carve_encoding,
                   carve_cache, carved_file_count, files>>

\* if (!in_cache): the file is opened and written, or carve throws runtime_error
\* when it cannot be opened or written
carve_file(t, ok) ==
    /\ cv[t].pc = "recorded"
    /\ files' = IF ok THEN Append(files, [path |-> cv[t].rel, id |-> cv[t].id,
                                          hash |-> carve_hash(cv[t].data)])
                      ELSE files
    /\ carve_log' = Append(carve_log, [id |-> cv[t].id, thread |-> t, data |-> cv[t].data,
                                       ret |-> IF ok THEN cv[t].rel ELSE <<>>,
                                       thrown |-> IF ok THEN "" ELSE "runtime_error"])
    /\ cv' = [cv EXCEPT ![t] = [pc |-> "idle"]]
    /\ UNCHANGED <<ssvars, libvars, cpvars, sbvars, carve_mode, do_not_carve_encoding,
                   carve_cache, carved_file_count, sink>>

\* the recorder as its definition configures it, in a set with or without outdir
InitCarve ==
    /\ CpIdle /\ SbIdle /\ LibIdle
    /\ scanner_commands = <<>>
    /\ current_phase = "PHASE_INIT"
    /\ scanner_info_db = <<>>
    /\ enabled_scanners = {}
    /\ frm = {}
    /\ histograms = <<>>
    /\ seen_set = {}
    /\ max_depth_seen = 0
    /\ last = [op |-> "scanner_set"]
    /\ flags \in {f \in FlagSets : ~f.no_alert /\ ~f.pedantic}
    /\ carve_mode \in {"CARVE_NONE", "CARVE_ENCODED", "CARVE_ALL"}
    /\ do_not_carve_encoding = <<"ZIP">>
    /\ carve_cache = {}
    /\ carved_file_count = 0
    /\ files = <<>>
    /\ sink = <<>>
    /\ cv = [t \in Threads |-> [pc |-> "idle"]]
    /\ carve_log = <<>>

NextCarve ==
    \/ \E t \in Threads : \E d \in CarveData : carve_enter(t, d)
    \/ \E t \in Threads : carve_number(t)
    \/ \E t \in Threads : carve_record(t)
    \/ \E t \in Threads : \E ok \in BOOLEAN : carve_file(t, ok)

SpecCarve == InitCarve /\ [][NextCarve]_vars

\* the call of this log entry went past the switch on carve_mode: it returned
\* a path or CACHED, or threw
Carved(e) == e.thrown # "" \/ e.ret = CACHED \/ Len(e.ret) = 4

\* the calls in the log that carved data of hash h
CarvesOf(h) == {i \in DOMAIN carve_log : carve_hash(carve_log[i].data) = h /\ Carved(carve_log[i])}

\* a call on data of hash h went past the switch before the call numbered id
CarvedBefore(h, id) ==
    \/ \E j \in CarvesOf(h) : carve_log[j].id < id
    \/ \E u \in Threads : cv[u].pc # "idle" /\ carve_hash(cv[u].data) = h /\ cv[u].id < id

InnermostAlpha(path) ==
    IF alphaPart(path) = <<>> THEN <<>> ELSE <<alphaPart(path)[Len(alphaPart(path))]>>

\* the values carve returns when it does not carve
NotCarvedValues == {NO_CARVED_FILE, <<>>}

\* C8: carve carves if and only if carve_mode is ALL, or carve_mode is ENCODED
\* and data.pos0.path is non-empty and its innermost alpha token differs from
\* do_not_carve_encoding; a call that does not carve returns the 'not carved'
\* sentinel and leaves carve_cache, carved_file_count and the sink unchanged.
C8_CarveFilter ==
    [][ Len(carve_log') > Len(carve_log) =>
          LET e == carve_log'[Len(carve_log')] IN
          /\ Carved(e) <=>
                \/ carve_mode = "CARVE_ALL"
                \/ /\ carve_mode = "CARVE_ENCODED"
                   /\ e.data.path # <<>>
                   /\ InnermostAlpha(e.data.path) # do_not_carve_encoding
          /\ ~Carved(e) =>
                /\ e.ret \in NotCarvedValues
                /\ UNCHANGED <<carve_cache, carved_file_count, sink, files>> ]_vars

\* C8 as the code has it: carve carves if and only if carve_mode is ALL, or
\* carve_mode is ENCODED and data.pos0.path is non-empty and the alphabetic part
\* of the whole path differs from do_not_carve_encoding; a call that does not
\* carve returns NO_CARVED_FILE (mode NONE, empty path) or an empty string
\* (alphabetic part equal) and leaves carve_cache, carved_file_count, the files
\* and the sink unchanged.
C8_CarveFilterAmended ==
    [][ Len(carve_log') > Len(carve_log) =>
          LET e == carve_log'[Len(carve_log')] IN
          /\ Carved(e) <=>
                \/ carve_mode = "CARVE_ALL"
                \/ /\ carve_mode = "CARVE_ENCODED"
                   /\ e.data.path # <<>>
                   /\ alphaPart(e.data.path) # do_not_carve_encoding
          /\ ~Carved(e) =>
                /\ e.ret = (IF carve_mode = "CARVE_ENCODED" /\ e.data.path # <<>>
                            THEN <<>> ELSE NO_CARVED_FILE)
                /\ UNCHANGED <<carve_cache, carved_file_count, sink, files>> ]_vars

\* in mode ENCODED data found in ZIP were not carved and data found in ZIP inside
\* HIBER were carved to a file
C8_Witness ==
    /\ carve_mode = "CARVE_ENCODED"
    /\ \E i \in DOMAIN carve_log, j \in DOMAIN carve_log :
          /\ carve_log[i].data.path = <<"1000", "ZIP">>
          /\ carve_log[i].ret = <<>> /\ carve_log[i].thrown = ""
          /\ carve_log[j].data.path = <<"1000", "HIBER", "33423", "ZIP">>
          /\ Len(carve_log[j].ret) = 4

(***************************************************************************)
(* sbuf_t::get8u .. get64u and get8uBE .. get64uBE                         *)
(*                                                                         *)
(* A size_t is modelled exactly for the values that occur: a number n >= 0 *)
(* stands for n, a number -k < 0 for 2^64 - k (the k-th value below the    *)
(* wrap-around of the type).                                               *)
(***************************************************************************)

\* a + n in size_t, for 0 <= n small: the sum wraps to a small value when a is
\* within n of the maximum
size_add(a, n) == a + n

\* a > b in size_t, an unsigned comparison
size_gt(a, b) ==
    IF (a < 0) = (b < 0) THEN a > b ELSE a < 0

\* the widths of the readers, in bytes
ReadWidths == {1, 2, 4, 8}

\* the buffers read: of every length up to MaxReadLen, with low or high bytes
ReadBufs ==
    {[j \in 1..n |-> j] : n \in 0..MaxReadLen} \cup
    {[j \in 1..n |-> 256 - j] : n \in 1..MaxReadLen}

\* the offsets passed: in the buffer, just past it, and the last values of size_t
ReadOffsets == (0..(MaxReadLen + 1)) \cup {0 - k : k \in 1..8}

\* what a read of this->buf[idx] outside the buffer can give: any byte, or a fault
OutsideReads ==
    {[fault |-> FALSE, byte |-> 0], [fault |-> FALSE, byte |-> 255],
     [fault |-> TRUE, byte |-> 0]}

\* this->buf[idx] on a buffer of bufsize bytes: the byte, or for an index outside
\* the buffer the outcome ub of the undefined read
read_byte(buf, idx, ub) ==
    IF idx >= 0 /\ idx < Len(buf) THEN buf[idx + 1] ELSE ub.byte

\* the bytes a reader of the width N combines, from the least significant one:
\* buf[i + 0] first for the Intel readers, buf[i + N - 1] first for the
\* Motorola readers
bytes_read(N, i, be) ==
    [k \in 1..N |-> IF be THEN size_add(i, N - k) ELSE size_add(i, k - 1)]

\* getNu(i) / getNuBE(i): if (i + N > bufsize) throw range_exception_t(); then the
\* bytes are shifted into place. value lists the bytes of the result from the
\* most significant one; outside is the set of indexes read outside the buffer
get(buf, N, i, be, ub) ==
    IF size_gt(size_add(i, N), Len(buf))
    THEN [thrown |-> "range_exception", value |-> <<>>, outside |-> {}]
    ELSE LET idx == bytes_read(N, i, be)
             out == {idx[k] : k \in {j \in 1..N : idx[j] < 0 \/ idx[j] >= Len(buf)}}
         IN  IF out # {} /\ ub.fault
             THEN [thrown |-> "SIGSEGV", value |-> <<>>, outside |-> out]
             ELSE [thrown |-> "", outside |-> out,
                   value |-> [k \in 1..N |-> read_byte(buf, idx[N + 1 - k], ub)]]

\* the state a reader call leaves
get_done(N, i, be, r) ==
    /\ rd' = [buf |-> rd.buf, op |-> "get", width |-> N, i |-> i, be |-> be,
              thrown |-> r.thrown, value |-> r.value, outside |-> r.outside]
    /\ UNCHANGED <<ssvars, cpvars, cvvars, sbvars, qsvars, frvars, extvars>>

\* a call of one of the readers on the sbuf
get_call(N, i, be, ub) == get_done(N, i, be, get(rd.buf, N, i, be, ub))

InitGet ==
    /\ SsInit /\ CpIdle /\ CvIdle /\ SbIdle /\ QsIdle /\ FrIdle /\ ExtIdle
    /\ \E b \in ReadBufs : rd = [buf |-> b, op |-> "none"]

NextGet ==
    \E N \in ReadWidths, i \in ReadOffsets, be \in BOOLEAN, ub \in OutsideReads :
       get_call(N, i, be, ub)

SpecGet == InitGet /\ [][NextGet]_vars

\* the bytes buf[i..i+N) as a number, most significant byte first
ExpectedValue(buf, N, i, be) ==
    [k \in 1..N |-> IF be THEN buf[i + k] ELSE buf[i + N + 1 - k]]

\* i + N <= bufsize, computed without wrap-around
ReadInRange == rd.i >= 0 /\ rd.i + rd.width <= Len(rd.buf)

\* C11: a read of N bytes at offset i with i + N <= bufsize returns the little-
\* endian (LE reader) or big-endian (BE reader) value of buf[i..i+N); a read with
\* i + N > bufsize, computed without wrap-around, raises the range error and
\* reads no byte outside the buffer.
C11_TypedReads ==
    rd.op = "get" =>
      /\ ReadInRange =>
            /\ rd.thrown = ""
            /\ rd.value = ExpectedValue(rd.buf, rd.width, rd.i, rd.be)
      /\ ~ReadInRange =>
            /\ rd.thrown = "range_exception"
            /\ rd.outside = {}

\* C11, the part the code has: reads in range return the value, and a read at an
\* offset that is not within N of the maximum of size_t is refused when out of range
C11_ReadsBelowWrap ==
    (rd.op = "get" /\ rd.i >= 0) =>
      /\ ReadInRange =>
            /\ rd.thrown = ""
            /\ rd.value = ExpectedValue(rd.buf, rd.width, rd.i, rd.be)
      /\ ~ReadInRange =>
            /\ rd.thrown = "range_exception"
            /\ rd.outside = {}

\* a 16-bit read at the last offset of size_t was not refused and read the byte
\* before the buffer
C11_Witness ==
    /\ rd.op = "get" /\ rd.width = 2 /\ rd.i = 0 - 1
    /\ rd.thrown = ""
    /\ (0 - 1) \in rd.outside

(***************************************************************************)
(* Byte strings: a std::string is the sequence of its bytes                *)
(***************************************************************************)
BACKSLASH == 92

LETTER_x == 120

TAB == 9

\* isodigit(c): c >= '0' && c <= '7'
isodigit(c) == c >= 48 /\ c <= 55

\* isxdigit(c) of <cctype>
isxdigit(c) == (c >= 48 /\ c <= 57) \/ (c >= 65 /\ c <= 70) \/ (c >= 97 /\ c <= 102)

\* hexval(ch): the switch over the hexadecimal digits, 0 for any other byte
hexval(ch) ==
    IF ch >= 48 /\ ch <= 57 THEN ch - 48
    ELSE IF ch >= 97 /\ ch <= 102 THEN ch - 87
    ELSE IF ch >= 65 /\ ch <= 70 THEN ch - 55
    ELSE 0

\* the digit of n < 16 in an escape \xHH
hexdigit(n) == IF n < 10 THEN 48 + n ELSE 55 + n

\* the escape \xHH of the byte b
hexesc(b) == <<BACKSLASH, LETTER_x, hexdigit(b \div 16), hexdigit(b % 16)>>

\* the byte at position i of s begins a valid UTF-8 sequence of two bytes
utf8_pair(s, i) ==
    /\ s[i] >= 194 /\ s[i] <= 223
    /\ i + 1 <= Len(s)
    /\ s[i + 1] >= 128 /\ s[i + 1] <= 191

\* a byte that is not printable text: a control character or DEL
unprintable(b) == b < 32 \/ b = 127

\* validateOrEscapeUTF8(input, escape_bad_utf8, escape_backslash, ...) from byte i
\* on: bytes that are not valid UTF-8, and control characters, become \xHH when
\* escape_bad_utf8; a backslash is doubled when escape_backslash
RECURSIVE escape_from(_, _, _, _)
escape_from(s, i, escape_bad_utf8, escape_backslash) ==
    IF i > Len(s) THEN <<>>
    ELSE IF s[i] = BACKSLASH /\ escape_backslash
         THEN <<BACKSLASH, BACKSLASH>> \o escape_from(s, i + 1, escape_bad_utf8, escape_backslash)
    ELSE IF s[i] < 128 /\ ~unprintable(s[i])
         THEN <<s[i]>> \o escape_from(s, i + 1, escape_bad_utf8, escape_backslash)
    ELSE IF s[i] >= 128 /\ utf8_pair(s, i)
         THEN <<s[i], s[i + 1]>> \o escape_from(s, i + 2, escape_bad_utf8, escape_backslash)
    ELSE (IF escape_bad_utf8 THEN hexesc(s[i]) ELSE <<s[i]>>)
         \o escape_from(s, i + 1, escape_bad_utf8, escape_backslash)

validateOrEscapeUTF8(input, escape_bad_utf8, escape_backslash) ==
    escape_from(input, 1, escape_bad_utf8, escape_backslash)

\* std::string::resize left out: the string is never cut
resize_never(s, n) == s

\* std::string::resize(n) on a string longer than n
resize(s, n) == IF Len(s) > n THEN SubSeq(s, 1, n) ELSE s

\* quote_if_necessary in which xml does not switch the escaping of backslashes off
quote_if_necessary_xml_ignored(def, feature, context) ==
    LET quote == ~def.no_quote
    IN  [feature |-> resize(validateOrEscapeUTF8(feature, quote, quote), def.max_feature_size),
         context |-> IF def.no_context THEN context
                     ELSE resize(validateOrEscapeUTF8(context, quote, quote),
                                 def.max_context_size)]

\* feature_recorder::quote_if_necessary(feature, context): the two strings afterwards
quote_if_necessary(def, feature, context) ==
    LET escape_bad_utf8 == IF def.xml THEN TRUE ELSE ~def.no_quote
        escape_backslash == IF def.xml THEN FALSE ELSE ~def.no_quote
    IN  [feature |-> resize(validateOrEscapeUTF8(feature, escape_bad_utf8, escape_backslash),
                            def.max_feature_size),
         context |-> IF def.no_context THEN context
                     ELSE resize(validateOrEscapeUTF8(context, escape_bad_utf8, escape_backslash),
                                 def.max_context_size)]

\* the loop of unquote_string from index i (counted from 0) on
RECURSIVE unquote_from(_, _)
unquote_from(s, i) ==
    LET len == Len(s) IN
    IF i >= len THEN <<>>
    ELSE IF i + 3 < len /\ s[i + 1] = BACKSLASH /\ isodigit(s[i + 2]) /\ isodigit(s[i + 3])
            /\ isodigit(s[i + 4])
         THEN <<((s[i + 2] - 48) * 64 + (s[i + 3] - 48) * 8 + (s[i + 4] - 48)) % 256>>
              \o unquote_from(s, i + 4)
    ELSE IF i + 3 < len /\ s[i + 1] = BACKSLASH /\ s[i + 2] = LETTER_x /\ isxdigit(s[i + 3])
            /\ isxdigit(s[i + 4])
         THEN <<hexval(s[i + 3]) * 16 + hexval(s[i + 4])>> \o unquote_from(s, i + 4)
    ELSE <<s[i + 1]>> \o unquote_from(s, i + 1)

\* unquote_string that decodes no escape
unquote_string_undecoded(s) == s

\* feature_recorder::unquote_string(s)
unquote_string(s) ==
    IF Len(s) < 4 THEN s ELSE unquote_from(s, 0)

(***************************************************************************)
(* A feature is quoted as write quotes it, then unquoted                   *)
(***************************************************************************)

\* the bytes features are made of: a letter, a backslash, x and 4 (of which
\* escapes are made), a tab, and the two bytes of a two-byte UTF-8 character
QuoteBytes == {97, BACKSLASH, LETTER_x, 52, TAB, 195, 169}

RECURSIVE strings_upto(_)
strings_upto(n) ==
    IF n = 0 THEN {<<>>}
    ELSE LET shorter == strings_upto(n - 1)
         IN  shorter \cup {Append(t, b) : t \in {u \in shorter : Len(u) = n - 1}, b \in QuoteBytes}

QuoteInputs == strings_upto(MaxQuoteLen)

\* the defs of the recorder: its flags, and sizes that the longest quoted forms exceed
QuoteDefs ==
    [no_quote : BOOLEAN, xml : BOOLEAN, no_context : {TRUE},
     max_feature_size : {MaxQuoteLen + 2}, max_context_size : {MaxQuoteLen + 2}]

\* write quotes the feature x
qs_quote ==
    /\ qs.pc = "input"
    /\ qs' = [qs EXCEPT !.pc = "quoted",
                        !.feature = quote_if_necessary(qs.def, qs.x, <<>>).feature]
    /\ UNCHANGED <<ssvars, cpvars, cvvars, sbvars, rdvars, frvars, extvars>>

\* a reader of the feature file unquotes what was written
qs_unquote ==
    /\ qs.pc = "quoted"
    /\ qs' = [qs EXCEPT !.pc = "unquoted", !.out = unquote_string(qs.feature)]
    /\ UNCHANGED <<ssvars, cpvars, cvvars, sbvars, rdvars, frvars, extvars>>

InitQuote ==
    /\ SsInit /\ CpIdle /\ CvIdle /\ SbIdle /\ RdIdle /\ FrIdle /\ ExtIdle
    /\ \E d \in QuoteDefs, x \in QuoteInputs :
          qs = [pc |-> "input", def |-> d, x |-> x, feature |-> <<>>, out |-> <<>>]

NextQuote == qs_quote \/ qs_unquote

SpecQuote == InitQuote /\ [][NextQuote]_vars

\* the number of bytes of s from i on that are not printable text: control
\* characters and bytes that are not part of valid UTF-8
RECURSIVE BadFrom(_, _)
BadFrom(s, i) ==
    IF i > Len(s) THEN 0
    ELSE IF s[i] < 128 THEN (IF unprintable(s[i]) THEN 1 ELSE 0) + BadFrom(s, i + 1)
    ELSE IF utf8_pair(s, i) THEN BadFrom(s, i + 2)
    ELSE 1 + BadFrom(s, i + 1)

NumBad(s) == BadFrom(s, 1)

NumBackslash(s) == Cardinality({i \in DOMAIN s : s[i] = BACKSLASH})

\* the feature written is shorter than max_feature_size: nothing was cut off
Uncut == Len(qs.feature) < qs.def.max_feature_size

\* C16: with neither flag set invalid UTF-8 and backslashes are both escaped;
\* with xml set only invalid UTF-8 is escaped; with no_quote set, whatever the
\* other flags, the feature written is the input feature up to truncation.
C16_EscapingByFlags ==
    qs.pc = "quoted" =>
      /\ (~qs.def.no_quote /\ ~qs.def.xml /\ Uncut) =>
            /\ NumBad(qs.feature) = 0
            /\ Len(qs.feature) = Len(qs.x) + 3 * NumBad(qs.x) + NumBackslash(qs.x)
      /\ (~qs.def.no_quote /\ qs.def.xml /\ Uncut) =>
            /\ NumBad(qs.feature) = 0
            /\ Len(qs.feature) = Len(qs.x) + 3 * NumBad(qs.x)
      /\ qs.def.no_quote => qs.feature = resize(qs.x, qs.def.max_feature_size)

\* C16 as the code has it: xml decides before no_quote. With xml set, alone or
\* with no_quote, only invalid UTF-8 is escaped; with neither flag invalid UTF-8
\* and backslashes are escaped; with no_quote set and xml unset the feature
\* written is the input feature up to truncation.
C16_EscapingByFlagsAmended ==
    qs.pc = "quoted" =>
      /\ (~qs.def.no_quote /\ ~qs.def.xml /\ Uncut) =>
            /\ NumBad(qs.feature) = 0
            /\ Len(qs.feature) = Len(qs.x) + 3 * NumBad(qs.x) + NumBackslash(qs.x)
      /\ (qs.def.xml /\ Uncut) =>
            /\ NumBad(qs.feature) = 0
            /\ Len(qs.feature) = Len(qs.x) + 3 * NumBad(qs.x)
      /\ (qs.def.no_quote /\ ~qs.def.xml) =>
            qs.feature = resize(qs.x, qs.def.max_feature_size)

\* a feature with a backslash and an invalid byte was quoted with xml set: the
\* backslash was left and the byte escaped
C16_Witness ==
    /\ qs.pc = "quoted" /\ qs.def.xml /\ ~qs.def.no_quote
    /\ qs.x = <<BACKSLASH, 195>>
    /\ qs.feature = <<BACKSLASH, BACKSLASH, LETTER_x, 67, 51>>

\* C17: with default flags the feature written holds only printable or escaped
\* bytes, and unquote_string gives the feature back, for every byte sequence.
C17_QuotingLaw ==
    (qs.pc = "unquoted" /\ ~qs.def.no_quote /\ ~qs.def.xml) =>
      /\ NumBad(qs.feature) = 0
      /\ qs.out = qs.x

\* C17 for the features the law holds of: those without a backslash whose quoted
\* form is not longer than max_feature_size.
C17_QuotingLawAmended ==
    (/\ qs.pc = "unquoted" /\ ~qs.def.no_quote /\ ~qs.def.xml
     /\ NumBackslash(qs.x) = 0
     /\ Len(qs.x) + 3 * NumBad(qs.x) <= qs.def.max_feature_size) =>
      /\ NumBad(qs.feature) = 0
      /\ qs.out = qs.x

\* a feature of one letter and one invalid byte came back from its quoted form
C17_Witness ==
    /\ qs.pc = "unquoted" /\ ~qs.def.no_quote /\ ~qs.def.xml
    /\ qs.x = <<97, 195>>
    /\ qs.feature = <<97, BACKSLASH, LETTER_x, 67, 51>>
    /\ qs.out = qs.x

(***************************************************************************)
(* feature_recorder::write, write_buf and histogram_add on the recorders   *)
(* of a feature_recorder_set                                               *)
(*                                                                         *)
(* recorders maps the name of a recorder to its def, its features_written, *)
(* its histograms (each the list of the features added to it) and records, *)
(* the (feature, context) pairs its backend wrote to its sink.             *)
(***************************************************************************)
NO_OUTDIR == "NO_OUTDIR"

\* feature_recorder_set::feature_recorder_set(flags_, hash_algorithm, input_fname_,
\* outdir_) with a directory that can be written: the flags of the set
feature_recorder_set_flags(flags_, outdir_) ==
    IF outdir_ = NO_OUTDIR THEN [flags_ EXCEPT !.disabled = TRUE] ELSE flags_

\* the arguments the set is constructed with
SetArgs ==
    { a \in [flags : {f \in FlagSets : ~f.no_alert}, outdir : {NO_OUTDIR, "outdir"}] :
        a.outdir = NO_OUTDIR => (~a.flags.disabled /\ ~a.flags.pedantic) }

\* the largest feature and context of the recorder defs
WriteMaxSize == 2

\* the defs a recorder is created with: at most one of its flags set
WriteDefs ==
    { d \in [no_quote : BOOLEAN, xml : {FALSE}, no_context : BOOLEAN, no_stoplist : BOOLEAN,
             max_feature_size : {WriteMaxSize}, max_context_size : {WriteMaxSize}] :
        Cardinality({f \in {"no_quote", "no_context", "no_stoplist"} : d[f]}) <= 1 }

\* the def of the stop-list recorder: it has no stop list of its own
StopDef ==
    [no_quote |-> FALSE, xml |-> FALSE, no_context |-> FALSE, no_stoplist |-> TRUE,
     max_feature_size |-> WriteMaxSize, max_context_size |-> WriteMaxSize]

\* a recorder as created
NewRecorder(def) ==
    [def |-> def, features_written |-> 0, histograms |-> <<>>, records |-> <<>>]

\* the feature "s" is on the stop list
StopWord == <<115>>

\* the features written: none, a letter, the stop word, a letter and a tab, and
\* one longer than max_feature_size
WriteFeatures == {<<>>, <<97>>, StopWord, <<97, TAB>>, <<97, 97, 97>>}

\* the contexts written: none, a tab, and one longer than max_context_size
WriteContexts == {<<>>, <<TAB>>, <<97, 97, 97>>}

\* the calls of write
WriteInputs == [feature : WriteFeatures, context : WriteContexts]

\* make_utf8(feature): the feature in UTF-8; the features of the model are UTF-8
make_utf8(feature) == feature

\* word_and_context_list::check_feature_context: the feature is on the list
check_feature_context(feature_utf8, context) == feature_utf8 \in stop_list.words

\* a recorder that never consults the stop list
stop_listed_never(def, feature_utf8, context) == FALSE

\* the test of write for the stop list: the recorder consults it, the set has a
\* stop list and a stop-list recorder, and the feature is on the list
stop_listed(def, feature_utf8, context) ==
    /\ ~def.no_stoplist
    /\ stop_list.configured
    /\ stop_list_recorder # ""
    /\ check_feature_context(feature_utf8, context)

\* the pedantic test of the bytes, left out
has_tab_nl_cr_unchecked(s) == FALSE

\* a tab, newline or carriage return in s
has_tab_nl_cr(s) == \E i \in DOMAIN s : s[i] \in {TAB, 10, 13}

\* feature_recorder::histograms_add_feature(feature) on the recorder name
histograms_add_feature(st, name, feature) ==
    [st EXCEPT !.recorders[name].histograms =
                   [i \in DOMAIN @ |-> Append(@[i], feature)]]

\* write0 that does not count
write0_uncounted(st, name, feature, context) == st

\* feature_recorder::write0(pos0, feature, context): the count of the features
write0(st, name, feature, context) ==
    IF flags.disabled THEN st
    ELSE [st EXCEPT !.recorders[name].features_written = @ + 1]

\* write0 of the backend of the recorder: the record goes to the sink and
\* feature_recorder::write0 counts it
write0_backend(st, name, feature, context) ==
    LET emitted == [st EXCEPT !.recorders[name].records = Append(@, <<feature, context>>)]
    IN  write0(emitted, name, feature, context)

\* write that passes the feature on whatever fs.flags.disabled says
write_when_disabled(st, name, feature_, context_, ndebug) ==
    write0_backend(histograms_add_feature(st, name, feature_), name, feature_, context_)

\* feature_recorder::write(pos0, feature_, context_) on the recorder name, from
\* the recorders and the exception in st; ndebug says that assert is compiled out
RECURSIVE write(_, _, _, _, _)
write(st, name, feature_, context_, ndebug) ==
    LET def == st.recorders[name].def IN
    IF flags.disabled THEN st
    ELSE IF flags.pedantic /\ Len(feature_) > def.max_feature_size
         THEN [st EXCEPT !.thrown = "runtime_error"]
    ELSE IF flags.pedantic /\ Len(context_) > def.max_context_size
         THEN [st EXCEPT !.thrown = "runtime_error"]
    ELSE LET feature_utf8 == make_utf8(feature_)
             q == quote_if_necessary(def, feature_, IF def.no_context THEN <<>> ELSE context_)
         IN  IF Len(q.feature) = 0
             THEN (IF flags.pedantic /\ ~ndebug THEN [st EXCEPT !.thrown = "SIGABRT"] ELSE st)
             ELSE IF flags.pedantic /\ (has_tab_nl_cr(q.feature) \/ has_tab_nl_cr(q.context))
             THEN [st EXCEPT !.thrown = "runtime_error"]
             ELSE IF stop_listed(def, feature_utf8, q.context)
             THEN write(st, stop_list_recorder, q.feature, q.context, ndebug)
             ELSE write0_backend(histograms_add_feature(st, name, q.feature),
                                 name, q.feature, q.context)

\* the sbuf handed to write_buf: a page of two bytes and a margin of two
WriteSbufs == {[buf |-> <<97, 97, 115, 97>>, pagesize |-> 2]}

\* the positions and lengths write_buf is called with: in the page, in the
\* margin and past the buffer
WritePositions == 1..5

WriteLengths == {1, 3}

\* feature_recorder::context_window
context_window == 1

\* sbuf_t::substr(pos, len): len bytes of the buffer from pos on
substr(sbuf, pos, len) == SubSeq(sbuf.buf, pos + 1, pos + len)

\* write_buf without the test for the margin
write_buf_margin_written(st, name, sbuf, pos, len_, ndebug) ==
    LET bufsize == Len(sbuf.buf) IN
    IF pos >= bufsize THEN [st EXCEPT !.thrown = "runtime_error"]
    ELSE LET len == IF pos + len_ > bufsize THEN bufsize - pos ELSE len_
         IN  write(st, name, substr(sbuf, pos, len), <<>>, ndebug)

\* feature_recorder::write_buf(sbuf, pos, len)
write_buf(st, name, sbuf, pos, len_, ndebug) ==
    LET bufsize == Len(sbuf.buf) IN
    IF pos >= sbuf.pagesize /\ pos < bufsize THEN st
    ELSE IF pos >= bufsize THEN [st EXCEPT !.thrown = "runtime_error"]
    ELSE LET len == IF pos + len_ > bufsize THEN bufsize - pos ELSE len_
             feature == substr(sbuf, pos, len)
             p0 == IF context_window < pos THEN pos - context_window ELSE 0
             p1 == Min({pos + len + context_window, bufsize})
             context == IF st.recorders[name].def.no_context THEN <<>>
                        ELSE substr(sbuf, p0, p1 - p0)
         IN  write(st, name, feature, context, ndebug)

\* histogram_add without the test of features_written
histogram_add_unguarded(st, name) ==
    [st EXCEPT !.recorders[name].histograms = Append(@, <<>>)]

\* feature_recorder::histogram_add(hdef) on the recorder name
histogram_add(st, name) ==
    IF st.recorders[name].features_written # 0
    THEN [st EXCEPT !.thrown = "runtime_error"]
    ELSE [st EXCEPT !.recorders[name].histograms = Append(@, <<>>)]

\* feature_recorder_set::histogram_add(def): named_feature_recorder(def.feature)
\* throws when the set has no recorder of that name
set_histogram_add(st, name) ==
    IF name \notin DOMAIN st.recorders
    THEN [st EXCEPT !.thrown = "NoSuchFeatureRecorder"]
    ELSE histogram_add(st, name)

\* the state a call on the recorders leaves: what was called, and what it did
fr_done(call, st) ==
    /\ recorders' = st.recorders
    /\ wlast' = [call EXCEPT !.n = wlast.n + 1, !.thrown = st.thrown]
    /\ UNCHANGED <<ssvars, cpvars, cvvars, sbvars, rdvars, qsvars, extvars,
                   outdir, stop_list, stop_list_recorder>>

\* the process runs and may make another call
fr_ready == wlast.n < MaxWrites /\ wlast.thrown # "SIGABRT"

BeforeCall == [recorders |-> recorders, thrown |-> ""]

fr_write(name, w, ndebug) ==
    /\ fr_ready
    /\ fr_done([op |-> "write", name |-> name, feature |-> w.feature, context |-> w.context,
                n |-> 0, thrown |-> ""],
               write(BeforeCall, name, w.feature, w.context, ndebug))

fr_write_buf(name, sbuf, pos, len, ndebug) ==
    /\ fr_ready
    /\ fr_done([op |-> "write_buf", name |-> name, sbuf |-> sbuf, pos |-> pos, len |-> len,
                n |-> 0, thrown |-> ""],
               write_buf(BeforeCall, name, sbuf, pos, len, ndebug))

fr_histogram_add(name) ==
    /\ fr_ready
    /\ fr_done([op |-> "histogram_add", name |-> name, n |-> 0, thrown |-> ""],
               set_histogram_add(BeforeCall, name))

\* the set as constructed, with the recorder url, which has one histogram or none,
\* and with or without a stop list and its recorder
InitWrite ==
    /\ CpIdle /\ CvIdle /\ SbIdle /\ RdIdle /\ QsIdle /\ ExtIdle
    /\ scanner_commands = <<>>
    /\ current_phase = "PHASE_INIT"
    /\ scanner_info_db = <<>>
    /\ enabled_scanners = {}
    /\ frm = {}
    /\ histograms = <<>>
    /\ seen_set = {}
    /\ max_depth_seen = 0
    /\ last = [op |-> "scanner_set"]
    /\ \E a \in SetArgs :
          /\ outdir = a.outdir
          /\ flags = feature_recorder_set_flags(a.flags, a.outdir)
    /\ \E stopping \in BOOLEAN, d \in WriteDefs, hs \in {<<>>, <<<<>>>>} :
          /\ stop_list = [configured |-> stopping,
                          words |-> IF stopping THEN {StopWord} ELSE {}]
          /\ stop_list_recorder = IF stopping THEN "stopped" ELSE ""
          /\ recorders = [name \in {"url"} \cup (IF stopping THEN {"stopped"} ELSE {}) |->
                            IF name = "url" THEN [NewRecorder(d) EXCEPT !.histograms = hs]
                                            ELSE NewRecorder(StopDef)]
    /\ wlast = [op |-> "none", n |-> 0, thrown |-> ""]

NextWrite ==
    \/ \E w \in WriteInputs, ndebug \in BOOLEAN : fr_write("url", w, ndebug)
    \/ \E sbuf \in WriteSbufs, pos \in WritePositions, len \in WriteLengths,
          ndebug \in BOOLEAN : fr_write_buf("url", sbuf, pos, len, ndebug)
    \/ \E name \in {"url", "stopped", "nosuch"} : fr_histogram_add(name)

SpecWrite == InitWrite /\ [][NextWrite]_vars

StopListedWrite ==
    /\ wlast'.op = "write" /\ wlast'.thrown = ""
    /\ ~flags.disabled
    /\ ~recorders[wlast'.name].def.no_stoplist
    /\ stop_list.configured /\ stop_list_recorder # ""
    /\ wlast'.feature # <<>>
    /\ make_utf8(wlast'.feature) \in stop_list.words

HistogramsComplete ==
    \A name \in DOMAIN recorders :
       LET r == recorders[name] IN
       /\ Len(r.records) = r.features_written
       /\ \A i \in DOMAIN r.histograms :
             r.histograms[i] = [j \in DOMAIN r.records |-> r.records[j][1]]

\* C15: histogram_add on a recorder succeeds only while the recorder has written
\* no feature; once features_written is not 0 it fails and leaves the histograms
\* of the recorder as they were, so that every histogram of a recorder has seen
\* every feature the recorder emitted.
C15_HistogramAdd ==
    [][ /\ (wlast'.op = "histogram_add" /\ wlast'.name \in DOMAIN recorders) =>
              IF recorders[wlast'.name].features_written # 0
              THEN wlast'.thrown = "runtime_error" /\ recorders' = recorders
              ELSE /\ wlast'.thrown = ""
                   /\ Len(recorders'[wlast'.name].histograms)
                         = Len(recorders[wlast'.name].histograms) + 1
        /\ HistogramsComplete' ]_vars

\* url wrote a feature that its histogram saw, and a second histogram was refused
C15_Witness ==
    /\ wlast.op = "histogram_add" /\ wlast.name = "url" /\ wlast.thrown = "runtime_error"
    /\ recorders["url"].features_written = 1
    /\ recorders["url"].histograms = << <<<<97>>>> >>

\* s holds a tab, a newline or a carriage return
HoldsTabNlCr(s) == \E i \in DOMAIN s : s[i] = 9 \/ s[i] = 10 \/ s[i] = 13

\* the def of the recorder the write of the step was made on
WrittenDef == recorders[wlast'.name].def

\* C18: in pedantic mode a write whose feature is longer than max_feature_size,
\* whose context is longer than max_context_size, or whose feature or context
\* holds a tab, newline or carriage return fails with an error and records
\* nothing.
C18_PedanticWrite ==
    [][ (/\ wlast'.op = "write" /\ flags.pedantic /\ ~flags.disabled
         /\ \/ Len(wlast'.feature) > WrittenDef.max_feature_size
            \/ Len(wlast'.context) > WrittenDef.max_context_size
            \/ HoldsTabNlCr(wlast'.feature)
            \/ HoldsTabNlCr(wlast'.context)) =>
           /\ wlast'.thrown # ""
           /\ recorders' = recorders ]_vars

\* the feature and the context as write has them after quote_if_necessary
QuotedWrite ==
    quote_if_necessary(WrittenDef, wlast'.feature,
                       IF WrittenDef.no_context THEN <<>> ELSE wlast'.context)

\* C18 as the code has it: the lengths are tested on the strings passed in, the
\* bytes on the strings after quoting, and the context is dropped before the
\* test of its bytes when no_context is set. A write of a feature that is not
\* empty fails with an error and records nothing when the feature or the context
\* passed in is too long, or when the quoted feature or the quoted context that
\* is kept holds a tab, newline or carriage return.
C18_PedanticWriteAmended ==
    [][ (/\ wlast'.op = "write" /\ flags.pedantic /\ ~flags.disabled
         /\ wlast'.feature # <<>>
         /\ \/ Len(wlast'.feature) > WrittenDef.max_feature_size
            \/ Len(wlast'.context) > WrittenDef.max_context_size
            \/ HoldsTabNlCr(QuotedWrite.feature)
            \/ HoldsTabNlCr(QuotedWrite.context)) =>
           /\ wlast'.thrown = "runtime_error"
           /\ recorders' = recorders ]_vars

\* in pedantic mode a recorder with no_quote refused a feature with a tab, after
\* it had recorded a letter
C18_Witness ==
    /\ flags.pedantic
    /\ wlast.op = "write" /\ wlast.feature = <<97, TAB>> /\ wlast.thrown = "runtime_error"
    /\ recorders["url"].def.no_quote
    /\ recorders["url"].records = << <<<<97>>, <<>>>> >>
    /\ recorders["url"].features_written = 1

\* C19: write_buf at a position in the margin, pagesize <= pos < bufsize,
\* records nothing and raises no error, whatever len is; at pos >= bufsize it
\* raises an error and records nothing; only a position pos < pagesize can give
\* a record.
C19_WriteBufMargin ==
    [][ wlast'.op = "write_buf" =>
           /\ (wlast'.pos >= wlast'.sbuf.pagesize /\ wlast'.pos < Len(wlast'.sbuf.buf)) =>
                 (wlast'.thrown = "" /\ recorders' = recorders)
           /\ wlast'.pos >= Len(wlast'.sbuf.buf) =>
                 (wlast'.thrown = "runtime_error" /\ recorders' = recorders)
           /\ recorders' # recorders => wlast'.pos < wlast'.sbuf.pagesize ]_vars

\* a feature at a position of the page was recorded, then one in the margin dropped
C19_Witness ==
    /\ wlast.op = "write_buf" /\ wlast.thrown = ""
    /\ wlast.pos >= wlast.sbuf.pagesize /\ wlast.pos < Len(wlast.sbuf.buf)
    /\ Len(recorders["url"].records) = 1

(***************************************************************************)
(* The enable and disable commands                                         *)
(***************************************************************************)
\* the scanner functions the driver adds here, alpha and beta
CmdScanners == {s \in ScannerIds : ScannerNames[s] \in {"alpha", "beta"}}

\* the scanner_info they may register: default_enabled and no_all either way
CmdInfoSet(s) ==
    { [name |-> ScannerNames[s],
       scan_ngram_buffer |-> TRUE, depth0_only |-> FALSE, scan_seen_before |-> TRUE,
       default_enabled |-> d, no_all |-> n,
       feature_defs |-> <<>>, histogram_defs |-> <<>>] : d \in BOOLEAN, n \in BOOLEAN }

\* the commands push_scanner_command may queue: for every scanner, for alpha,
\* for beta, and for a name that no scanner has
QueuedCommands ==
    [scannerName : {ALL_SCANNERS, "alpha", "beta", "omega"}, command : {"ENABLE", "DISABLE"}]

RECURSIVE commands_upto(_)
commands_upto(n) ==
    IF n = 0 THEN {<<>>}
    ELSE LET shorter == commands_upto(n - 1)
         IN  shorter \cup {Append(l, c) : l \in shorter, c \in QueuedCommands}

\* a set with the plain flags and any queue of at most MaxCommands commands
InitCmd ==
    /\ CpIdle /\ CvIdle /\ SbIdle /\ LibIdle
    /\ flags \in {f \in FlagSets : ~f.no_alert /\ ~f.disabled /\ ~f.pedantic}
    /\ scanner_commands \in commands_upto(MaxCommands)
    /\ current_phase = "PHASE_INIT"
    /\ scanner_info_db = <<>>
    /\ enabled_scanners = {}
    /\ frm = {}
    /\ histograms = <<>>
    /\ seen_set = {}
    /\ max_depth_seen = 0
    /\ last = LastOf("scanner_set", <<>>, "", EmptyTrace)

NextCmd ==
    \/ \E s \in CmdScanners : \E info \in CmdInfoSet(s) \cup {<<>>} : add_scanner(s, info)
    \/ apply_scanner_commands

SpecCmd == InitCmd /\ [][NextCmd]_vars

\* command cmd applies to the scanner with scanner_info info
Applies(cmd, info) ==
    IF cmd.scannerName = ALL_SCANNERS THEN ~info.no_all ELSE cmd.scannerName = info.name

\* the queued commands that apply to scanner s
ApplicableTo(s) ==
    {i \in DOMAIN scanner_commands : Applies(scanner_commands[i], scanner_info_db[s])}

\* the status the queue gives scanner s: that of the last command that applies
\* to it, and default_enabled when none does
StatusByCommands(s) ==
    IF ApplicableTo(s) = {} THEN scanner_info_db[s].default_enabled
    ELSE LET i == CHOOSE k \in ApplicableTo(s) : \A j \in ApplicableTo(s) : j <= k
         IN  scanner_commands[i].command = "ENABLE"

\* C20: after apply_scanner_commands every scanner is enabled iff the last queued
\* command that applies to it is ENABLE, a named command applying to the scanner
\* of that name and an ALL_SCANNERS command to every scanner with no_all unset;
\* a scanner no command applies to is enabled iff default_enabled is set, so an
\* ALL_SCANNERS command never changes the status of a no_all scanner.
C20_CommandsDecide ==
    [][ (last'.op = "apply_scanner_commands" /\ last'.result = "ok") =>
           \A s \in DOMAIN scanner_info_db :
              /\ (s \in enabled_scanners') <=> StatusByCommands(s)
              /\ (/\ scanner_info_db[s].no_all
                  /\ \A i \in DOMAIN scanner_commands :
                        scanner_commands[i].scannerName = ALL_SCANNERS) =>
                    ((s \in enabled_scanners') <=> (s \in enabled_scanners)) ]_vars

\* every scanner was disabled and beta enabled again: alpha, a no_all scanner
\* enabled by default, is still enabled, and so is beta
C20_Witness ==
    /\ last.op = "apply_scanner_commands" /\ last.result = "ok"
    /\ scanner_commands = <<[scannerName |-> ALL_SCANNERS, command |-> "DISABLE"],
                            [scannerName |-> "beta", command |-> "ENABLE"]>>
    /\ DOMAIN scanner_info_db = {1, 2}
    /\ scanner_info_db[1].no_all /\ scanner_info_db[1].default_enabled
    /\ ~scanner_info_db[2].no_all /\ ~scanner_info_db[2].default_enabled
    /\ enabled_scanners = {1, 2}

(***************************************************************************)
(* The recorders of the set                                                *)
(***************************************************************************)
\* flags_t with the alert recorder wanted or not and every choice of backends
RecFlagSets ==
    { [no_alert |-> a, disabled |-> FALSE, pedantic |-> FALSE,
       record_files |-> f, record_sql |-> q] : a \in BOOLEAN, f \in BOOLEAN, q \in BOOLEAN }

\* the queue of commands: empty, or beta disabled
RecCommandLists == { <<>>, <<[scannerName |-> "beta", command |-> "DISABLE"]>> }

\* the scanner_info alpha and beta may register: enabled by default or not,
\* declaring the feature file email or none, and a histogram of email or none
RecInfoSet(s) ==
    { [name |-> ScannerNames[s],
       scan_ngram_buffer |-> TRUE, depth0_only |-> FALSE, scan_seen_before |-> TRUE,
       default_enabled |-> d, no_all |-> FALSE,
       feature_defs |-> f, histogram_defs |-> h]
      : d \in BOOLEAN, f \in {<<>>, <<"email">>}, h \in {<<>>, <<"email">>} }

\* the names create_feature_recorder is called with from outside the set
RecNames == {"email", ALERT_RECORDER_NAME}

\* fs.create_feature_recorder(def) with def.name = name
fs_create_feature_recorder(name) ==
    /\ frm' = create_feature_recorder(frm, name).frm
    /\ last' = LastOf("create_feature_recorder", name,
                      create_feature_recorder(frm, name).thrown, EmptyTrace)
    /\ UNCHANGED <<flags, scanner_commands, current_phase, scanner_info_db,
                   enabled_scanners, histograms, seen_set, max_depth_seen,
                   cpvars, cvvars, sbvars, libvars>>

InitRec ==
    /\ CpIdle /\ CvIdle /\ SbIdle /\ LibIdle
    /\ flags \in RecFlagSets
    /\ scanner_commands \in RecCommandLists
    /\ current_phase = "PHASE_INIT"
    /\ scanner_info_db = <<>>
    /\ enabled_scanners = {}
    /\ frm = {}
    /\ histograms = <<>>
    /\ seen_set = {}
    /\ max_depth_seen = 0
    /\ last = LastOf("scanner_set", <<>>, "", EmptyTrace)

NextRec ==
    \/ \E s \in CmdScanners : \E info \in RecInfoSet(s) \cup {<<>>} : add_scanner(s, info)
    \/ Len(histograms) < MaxHistograms /\ apply_scanner_commands
    \/ \E name \in RecNames : fs_create_feature_recorder(name)

SpecRec == InitRec /\ [][NextRec]_vars

\* the feature names the scanners of S declare
DeclaredBy(S) ==
    UNION {{scanner_info_db[s].feature_defs[i] : i \in DOMAIN scanner_info_db[s].feature_defs}
           : s \in S \cap DOMAIN scanner_info_db}

\* C21: after apply_scanner_commands succeeds on a set with no recorder yet, the
\* set holds one recorder for every feature name that an enabled scanner
\* declares, the alert recorder unless alerts are suppressed, and no other; and
\* two scanners that declare the same name cause no 'already exists' failure.
C21_RecordersOfEnabled ==
    [][ (last'.op = "apply_scanner_commands" /\ frm = {} /\ current_phase = "PHASE_INIT") =>
           /\ last'.result # "FeatureRecorderAlreadyExists"
           /\ last'.result = "ok" =>
                 frm' = DeclaredBy(enabled_scanners')
                        \cup (IF flags.no_alert THEN {} ELSE {ALERT_RECORDER_NAME}) ]_vars

\* alpha and beta both declare email and are enabled: apply_scanner_commands
\* failed with FeatureRecorderAlreadyExists and left the phase at PHASE_INIT
C21_Witness ==
    /\ last.op = "apply_scanner_commands" /\ last.result = "FeatureRecorderAlreadyExists"
    /\ DOMAIN scanner_info_db = {1, 2}
    /\ scanner_info_db[1].feature_defs = <<"email">>
    /\ scanner_info_db[2].feature_defs = <<"email">>
    /\ enabled_scanners = {1, 2}
    /\ frm = {"email", ALERT_RECORDER_NAME}
    /\ current_phase = "PHASE_INIT"

\* C22: create_feature_recorder fails and leaves the recorders as they were when
\* a recorder of that name exists or when the file and SQL backends are both
\* selected or both unselected; otherwise it adds exactly one recorder, under
\* that name.
C22_CreateFeatureRecorder ==
    [][ last'.op = "create_feature_recorder" =>
           IF \/ last'.arg \in frm
              \/ flags.record_files = flags.record_sql
           THEN last'.result # "ok" /\ frm' = frm
           ELSE /\ last'.result = "ok"
                /\ frm' = frm \cup {last'.arg}
                /\ Cardinality(frm') = Cardinality(frm) + 1 ]_vars

\* a second recorder named email was refused after the first was created
C22_Witness ==
    /\ last.op = "create_feature_recorder" /\ last.arg = "email"
    /\ last.result = "FeatureRecorderAlreadyExists"
    /\ frm = {"email"}

(***************************************************************************)
(* Registration of the scanners                                            *)
(***************************************************************************)
\* C23: add_scanner of a scanner function that is already registered fails and
\* leaves the scanner database and the enabled set as they were; a scanner
\* function is therefore dispatched at most once on an sbuf.
C23_DuplicateScanner ==
    [][ /\ (last'.op = "add_scanner" /\ last'.arg \in DOMAIN scanner_info_db) =>
              /\ last'.result = "runtime_error"
              /\ scanner_info_db' = scanner_info_db
              /\ enabled_scanners' = enabled_scanners
        /\ last'.op = "process_sbuf" =>
              \A c \in DOMAIN last'.calls : \A s \in ScannerIds :
                 InvokedCount(last', c, s) <= 1 ]_vars

\* the first scanner function, registered and enabled, was added a second time
\* and refused
C23_Witness ==
    /\ last.op = "add_scanner" /\ last.arg = 1 /\ last.result = "runtime_error"
    /\ 1 \in DOMAIN scanner_info_db
    /\ 1 \in enabled_scanners

\* a queued command names a scanner, not ALL_SCANNERS, that is not registered
NamesMissingScanner ==
    \E i \in DOMAIN scanner_commands :
       /\ scanner_commands[i].scannerName # "all"
       /\ \A s \in DOMAIN scanner_info_db :
             scanner_info_db[s].name # scanner_commands[i].scannerName

\* C24: apply_scanner_commands fails when a queued command names a scanner that
\* is not registered, be the command ENABLE or DISABLE, and the phase does not
\* advance to PHASE_ENABLED.
C24_NoSuchScanner ==
    [][ (last'.op = "apply_scanner_commands" /\ NamesMissingScanner) =>
           /\ last'.result # "ok"
           /\ current_phase = "PHASE_INIT" => last'.result = "NoSuchScanner"
           /\ current_phase' = current_phase ]_vars

\* alpha is registered and the queue disables omega, which no scanner is called:
\* apply_scanner_commands failed with NoSuchScanner in PHASE_INIT
C24_Witness ==
    /\ last.op = "apply_scanner_commands" /\ last.result = "NoSuchScanner"
    /\ scanner_commands = <<[scannerName |-> "omega", command |-> "DISABLE"]>>
    /\ DOMAIN scanner_info_db = {1}
    /\ current_phase = "PHASE_INIT"

(***************************************************************************)
(* The life of the sbuf given to process_sbuf                              *)
(***************************************************************************)
\* how often the sbuf of call c of the trace L was deleted
DeletedCount(L, c) == Cardinality({i \in DOMAIN L.deleted : L.deleted[i] = c})

\* C25: every call of process_sbuf in PHASE_SCAN, the nested ones included,
\* destroys its sbuf exactly once, on every path: depth-capped, duplicate,
\* scanner failure, normal.
C25_DeletedOnce ==
    [][ (last'.op = "process_sbuf" /\ current_phase = "PHASE_SCAN") =>
           \A c \in DOMAIN last'.calls : DeletedCount(last', c) = 1 ]_vars

\* a process_sbuf call that returned: the sbuf of a nested call at max_depth was
\* never deleted, that of the outer call was
C25_Witness ==
    /\ last.op = "process_sbuf" /\ last.result = "ok"
    /\ flags.no_alert
    /\ \E c \in DOMAIN last.calls :
          /\ last.calls[c].capped
          /\ DeletedCount(last, c) = 0
    /\ DeletedCount(last, 1) = 1

(***************************************************************************)
(* ~sbuf_t with its release actions, run on the objects in any order       *)
(***************************************************************************)
\* sbuf_t(pos0, buf, bufsize, pagesize, fd, should_unmap, should_free,
\* should_close): an sbuf that is no view; owns says that should_free is set
sbuf_alloc(i, owns) ==
    /\ sb_status = "running"
    /\ i = FreshSbuf /\ i \in SbufIds
    /\ sb' = [sb EXCEPT ![i] = [state |-> "live", ctor |-> "root", parent |-> 0,
                                children |-> 0, added |-> 0]]
    /\ sb_owns' = IF owns THEN sb_owns \cup {i} ELSE sb_owns
    /\ UNCHANGED <<ssvars, rdvars, qsvars, frvars, cpvars, cvvars, xvars, yvars, sb_status,
                   sb_freed, sb_errors>>

\* a destructor that leaks when children is not 0: it logs and releases nothing
sbuf_delete_leaking(i) ==
    /\ sb_status = "running"
    /\ i \in Constructed
    /\ sb_errors' = IF sb[i].children # 0 THEN sb_errors + 1 ELSE sb_errors
    /\ IF sb[i].parent = 0
       THEN /\ sb' = [sb EXCEPT ![i].state = "destroyed"]
            /\ sb_status' = "running"
       ELSE /\ sb' = [sb EXCEPT ![i].state = "destroyed",
                                ![sb[i].parent].children = del_child(sb[i].parent)]
            /\ sb_status' \in AssertOutcomes(del_child(sb[i].parent))
    /\ sb_freed' = IF sb_status' = "running" /\ i \in sb_owns /\ sb[i].children = 0
                   THEN sb_freed \cup {i} ELSE sb_freed
    /\ UNCHANGED <<ssvars, rdvars, qsvars, frvars, cpvars, cvvars, xvars, yvars, sb_owns>>

\* ~sbuf_t, whole: the error line when children is not 0, del_child on the
\* parent, then free(buf) when should_free is set; munmap and close go the same
\* way. Nothing orders the destructors of an sbuf and of its views.
sbuf_delete(i) ==
    /\ sb_status = "running"
    /\ i \in Constructed
    /\ sb_errors' = IF sb[i].children # 0 THEN sb_errors + 1 ELSE sb_errors
    /\ IF sb[i].parent = 0
       THEN /\ sb' = [sb EXCEPT ![i].state = "destroyed"]
            /\ sb_status' = "running"
       ELSE /\ sb' = [sb EXCEPT ![i].state = "destroyed",
                                ![sb[i].parent].children = del_child(sb[i].parent)]
            /\ sb_status' \in AssertOutcomes(del_child(sb[i].parent))
    /\ sb_freed' = IF sb_status' = "running" /\ i \in sb_owns
                   THEN sb_freed \cup {i} ELSE sb_freed
    /\ UNCHANGED <<ssvars, rdvars, qsvars, frvars, cpvars, cvvars, xvars, yvars, sb_owns>>

InitFree == SsInit /\ CpIdle /\ CvIdle /\ SbIdle /\ LibIdle

NextFree ==
    \/ \E i \in SbufIds, owns \in BOOLEAN : sbuf_alloc(i, owns)
    \/ \E i \in SbufIds, src \in SbufIds : sbuf_relabel(i, src)
    \/ \E i \in SbufIds, src \in SbufIds : sbuf_subset(i, src)
    \/ \E i \in SbufIds : sbuf_delete(i)

SpecFree == InitFree /\ [][NextFree]_vars

\* the step runs the destructor of i to its end
Destroys(i) == sb[i].state = "live" /\ sb'[i].state = "destroyed" /\ sb_status' = "running"

\* a live view whose bytes are those of an sbuf that has been freed
DanglingViews ==
    {j \in SbufIds : sb[j].state = "live" /\ sb[j].parent # 0 /\ sb[j].parent \in sb_freed}

\* C26: destroying a buffer while its children counter is > 0 logs an error and
\* leaks: it takes none of its release actions, so that no live child view
\* refers to released bytes and no memory is released twice.
C26_DestroyLeaks ==
    [][ /\ \A i \in SbufIds :
              (Destroys(i) /\ sb[i].children > 0) =>
                 /\ sb_errors' = sb_errors + 1
                 /\ sb_freed' = sb_freed
        /\ DanglingViews' = {}
        /\ \A i \in SbufIds : Destroys(i) => i \notin sb_freed ]_vars

\* C26 as the code has it: the destructor logs the error and goes on to its
\* release actions, so that the bytes of a buffer that owns them are freed
\* under its live views; the views own nothing, and nothing is freed twice.
C26_DestroyLogsAndFrees ==
    [][ /\ \A i \in SbufIds :
              (Destroys(i) /\ sb[i].children > 0) =>
                 /\ sb_errors' = sb_errors + 1
                 /\ sb_freed' = IF i \in sb_owns THEN sb_freed \cup {i} ELSE sb_freed
                 /\ i \in sb_owns => \E j \in DanglingViews' : sb[j].parent = i
        /\ \A i \in SbufIds : Destroys(i) => i \notin sb_freed
        /\ \A i \in sb_freed' : sb[i].parent = 0 ]_vars

\* a buffer that owns its bytes was destroyed with one counted view alive: the
\* error was logged, the bytes are freed and the view still lives
C26_Witness ==
    /\ sb[1].state = "destroyed" /\ sb[1].children = 1
    /\ 1 \in sb_owns /\ 1 \in sb_freed
    /\ sb_errors = 1
    /\ sb[2].state = "live" /\ sb[2].parent = 1

(***************************************************************************)
(* feature_recorder_set::hash_def::hash_func_for_name                      *)
(*                                                                         *)
(* A name is the sequence of its character codes: 45 is the hyphen, 48..57 *)
(* the digits, 65..90 the capitals, 97..122 the small letters.             *)
(***************************************************************************)
str_md5 == <<109, 100, 53>>

str_MD5 == <<77, 68, 53>>

str_sha1 == <<115, 104, 97, 49>>

str_SHA1 == <<83, 72, 65, 49>>

str_sha_1 == <<115, 104, 97, 45, 49>>

str_SHA_1 == <<83, 72, 65, 45, 49>>

str_sha256 == <<115, 104, 97, 50, 53, 54>>

str_SHA256 == <<83, 72, 65, 50, 53, 54>>

str_sha_256 == <<115, 104, 97, 45, 50, 53, 54>>

str_SHA_256 == <<83, 72, 65, 45, 50, 53, 54>>

\* "sha512", which is no algorithm of the set
str_sha512 == <<115, 104, 97, 53, 49, 50>>

\* hash_func_for_name that knows the spellings in small letters only
hash_func_for_name_small_only(name) ==
    IF name = str_md5 THEN "md5_hasher"
    ELSE IF name = str_sha1 \/ name = str_sha_1 THEN "sha1_hasher"
    ELSE IF name = str_sha256 \/ name = str_sha_256 THEN "sha256_hasher"
    ELSE "invalid_argument"

\* the hasher for a name, or the exception thrown
hash_func_for_name(name) ==
    IF name = str_md5 \/ name = str_MD5 THEN "md5_hasher"
    ELSE IF name = str_sha1 \/ name = str_SHA1 \/ name = str_sha_1 \/ name = str_SHA_1
    THEN "sha1_hasher"
    ELSE IF name = str_sha256 \/ name = str_SHA256 \/ name = str_sha_256 \/ name = str_SHA_256
    THEN "sha256_hasher"
    ELSE "invalid_argument"

\* the constructor of feature_recorder_set: the hasher is made in the member
\* initializers, before the body tests outdir
feature_recorder_set_ctor(hash_algorithm, outdir_) ==
    IF hash_func_for_name(hash_algorithm) = "invalid_argument"
    THEN [thrown |-> "invalid_argument", hasher |-> "none"]
    ELSE IF outdir_ = ""
    THEN [thrown |-> "invalid_argument", hasher |-> "none"]
    ELSE [thrown |-> "", hasher |-> hash_func_for_name(hash_algorithm)]

\* the spellings of a word written in small letters, each letter small or capital
RECURSIVE case_variants(_)
case_variants(w) ==
    IF w = <<>> THEN {<<>>}
    ELSE LET c == w[1]
             heads == IF c \in 97..122 THEN {c, c - 32} ELSE {c}
         IN  {<<h>> \o t : h \in heads, t \in case_variants(Tail(w))}

\* the word with a hyphen put in after its first k characters
with_hyphen(w, k) == SubSeq(w, 1, k) \o <<45>> \o SubSeq(w, k + 1, Len(w))

\* the names given: md5, sha1, sha256 and sha512 in every letter case, with and
\* without a hyphen before the digits, and the empty name
HashNames ==
    UNION { case_variants(w) : w \in {str_md5, with_hyphen(str_md5, 2),
                                       str_sha1, with_hyphen(str_sha1, 3),
                                       str_sha256, with_hyphen(str_sha256, 3),
                                       str_sha512, with_hyphen(str_sha512, 3)} }
    \cup {<<>>}

hs_func_for_name(name) ==
    /\ hasher' = [op |-> "hash_func_for_name", name |-> name, outdir |-> "",
              result |-> hash_func_for_name(name)]
    /\ UNCHANGED <<ssvars, cpvars, cvvars, sbvars, rdvars, qsvars, frvars, dtvars,
                   scanners, wthr, yvars>>

hs_construct(name, outdir_) ==
    /\ hasher' = [op |-> "feature_recorder_set", name |-> name, outdir |-> outdir_,
              result |-> IF feature_recorder_set_ctor(name, outdir_).thrown # ""
                         THEN feature_recorder_set_ctor(name, outdir_).thrown
                         ELSE feature_recorder_set_ctor(name, outdir_).hasher]
    /\ UNCHANGED <<ssvars, cpvars, cvvars, sbvars, rdvars, qsvars, frvars, dtvars,
                   scanners, wthr, yvars>>

InitHash ==
    /\ SsInit /\ CpIdle /\ CvIdle /\ SbIdle /\ LibIdle

NextHash ==
    \/ \E name \in HashNames : hs_func_for_name(name)
    \/ \E name \in HashNames, outdir_ \in {NO_OUTDIR, "out"} : hs_construct(name, outdir_)

SpecHash == InitHash /\ [][NextHash]_vars

\* the name in small letters
lower(name) == [i \in DOMAIN name |-> IF name[i] \in 65..90 THEN name[i] + 32 ELSE name[i]]

\* the name in capitals
upper(name) == [i \in DOMAIN name |-> IF name[i] \in 97..122 THEN name[i] - 32 ELSE name[i]]

\* the hasher whose algorithm the name spells in some letter case, with or
\* without a hyphen before the digits; "invalid_argument" when it spells none
SpelledHasher(name) ==
    IF lower(name) \in {<<109, 100, 53>>, <<109, 100, 45, 53>>} THEN "md5_hasher"
    ELSE IF lower(name) \in {<<115, 104, 97, 49>>, <<115, 104, 97, 45, 49>>} THEN "sha1_hasher"
    ELSE IF lower(name) \in {<<115, 104, 97, 50, 53, 54>>, <<115, 104, 97, 45, 50, 53, 54>>}
    THEN "sha256_hasher"
    ELSE "invalid_argument"

\* C27: the hash algorithm name is accepted in any letter case and with or
\* without a hyphen before the digits: every such spelling of md5, sha1 and
\* sha256 selects the hasher of that algorithm, and every other name is
\* rejected with an invalid-argument error.
C27_HashNames ==
    hasher.op # "none" => hasher.result = SpelledHasher(hasher.name)

\* C27 as the code has it: a name is accepted when it is written all in small
\* letters or all in capitals, md5 without a hyphen, sha1 and sha256 with or
\* without one; every other name, a mixed-case one like Sha1 and md-5
\* included, is rejected with an invalid-argument error.
C27_HashNamesExact ==
    hasher.op # "none" =>
       hasher.result = IF /\ hasher.name \in {lower(hasher.name), upper(hasher.name)}
                      /\ lower(hasher.name) # <<109, 100, 45, 53>>
                   THEN SpelledHasher(hasher.name)
                   ELSE "invalid_argument"

\* SHA-256 in capitals selected the sha256 hasher of a new recorder set
C27_Witness ==
    /\ hasher.op = "feature_recorder_set"
    /\ hasher.name = <<83, 72, 65, 45, 50, 53, 54>>
    /\ hasher.result = "sha256_hasher"

(***************************************************************************)
(* The order of shutdown                                                   *)
(***************************************************************************)
\* the positions of the steps of one kind in the shutdown recorded in L
StepsOf(L, kind) == {i \in DOMAIN L.steps : L.steps[i].step = kind}

\* the shutdown recorded in L told every enabled scanner once and no other
\* scanner, then shut the recorders down, then generated the histograms, then
\* wrote the statistics
ShutdownInOrder(L) ==
    /\ \A s \in ScannerIds :
          Cardinality({i \in StepsOf(L, "PHASE_SHUTDOWN") : L.steps[i].scanner = s})
             = (IF s \in enabled_scanners THEN 1 ELSE 0)
    /\ Cardinality(StepsOf(L, "feature_recorders_shutdown")) = 1
    /\ Cardinality(StepsOf(L, "histograms_generate")) = 1
    /\ \A i \in StepsOf(L, "feature_recorders_shutdown") \cup StepsOf(L, "histograms_generate") :
          L.steps[i].frm = frm
    /\ \A i \in StepsOf(L, "PHASE_SHUTDOWN") :
          \A j \in StepsOf(L, "feature_recorders_shutdown") : i < j
    /\ \A i \in StepsOf(L, "feature_recorders_shutdown") :
          \A j \in StepsOf(L, "histograms_generate") : i < j
    /\ \A i \in StepsOf(L, "histograms_generate") :
          \A j \in StepsOf(L, "scanner_stats") : i < j

\* this step called a scanner function: process_sbuf or shutdown did, or
\* add_scanner called a scanner that was not loaded yet
ScannerInvoked ==
    \/ last'.invoked # <<>>
    \/ StepsOf(last', "PHASE_SHUTDOWN") # {}
    \/ last'.op = "add_scanner" /\ last'.arg \notin DOMAIN scanner_info_db

\* C28: shutdown sends the SHUTDOWN message exactly once to every enabled
\* scanner and to no disabled one, before the shutdown of the recorder set,
\* which is before histograms_generate, which is before the scanner statistics;
\* and once shutdown has returned no scanner is invoked again.
C28_ShutdownOrder ==
    [][ /\ (last'.op = "shutdown" /\ last'.result = "ok") => ShutdownInOrder(last')
        /\ current_phase = "PHASE_SHUTDOWN" => ~ScannerInvoked ]_vars

\* after shutdown a scanner was loaded, called with PHASE_INIT and enabled by
\* default: it runs after shutdown and never gets the SHUTDOWN message
C28_Witness ==
    /\ current_phase = "PHASE_SHUTDOWN"
    /\ last.op = "add_scanner" /\ last.arg \in enabled_scanners
    /\ frm # {}

(***************************************************************************)
(* The order in which process_sbuf calls the scanners                      *)
(***************************************************************************)
\* the null-terminated arrays add_scanners may be given: the scanner functions
\* in any order; a scanner's number is the rank of its address, the key order
\* of scanner_info_db
ScannerArrays ==
    {a \in [1..MaxScanners -> ScannerIds] : \A i, j \in DOMAIN a : a[i] = a[j] => i = j}

\* one round of the loop of add_scanners: the next entry of the array is added
ord_add_scanner(s, info) ==
    /\ Cardinality(DOMAIN scanner_info_db) < Len(scanners)
    /\ s = scanners[Cardinality(DOMAIN scanner_info_db) + 1]
    /\ add_scanner(s, info)

InitOrder ==
    /\ CpIdle /\ CvIdle /\ SbIdle /\ RdIdle /\ QsIdle /\ FrIdle
    /\ DtIdle /\ HsIdle /\ WtIdle /\ YIdle
    /\ scanners \in ScannerArrays
    /\ \E c \in Configs : flags = c.flags /\ scanner_commands = c.scanner_commands
    /\ current_phase = "PHASE_INIT"
    /\ scanner_info_db = <<>>
    /\ enabled_scanners = {}
    /\ frm = {}
    /\ histograms = <<>>
    /\ seen_set = {}
    /\ max_depth_seen = 0
    /\ last = LastOf("scanner_set", <<>>, "", EmptyTrace)

NextOrder ==
    \/ \E s \in ScannerIds : \E info \in InfoSet(s) : ord_add_scanner(s, info)
    \/ apply_scanner_commands
    \/ phase_scan
    \/ \E beh \in BehaviourChoices : \E sbuf \in Sbufs : process_sbuf_call(sbuf, beh)

SpecOrder == InitOrder /\ [][NextOrder]_vars

\* the place of scanner s in the array the scanners were added from
RegisteredAt(s) == CHOOSE i \in DOMAIN scanners : scanners[i] = s

\* the scanners each call recorded in L invoked, one after the other
InvokedInOrder(L, Before(_, _)) ==
    \A i, j \in DOMAIN L.invoked :
       (i < j /\ L.invoked[i].call = L.invoked[j].call) =>
          Before(L.invoked[i].scanner, L.invoked[j].scanner)

RegisteredBefore(s, t) == RegisteredAt(s) < RegisteredAt(t)

\* C29: process_sbuf invokes the eligible scanners in the order in which they
\* were registered with add_scanner, for every registration order: the order of
\* dispatch does not depend on the addresses or names of the scanner functions.
C29_RegistrationOrder ==
    last.op = "process_sbuf" => InvokedInOrder(last, RegisteredBefore)

\* the scanner at the higher address was registered first, and process_sbuf
\* called the one at the lower address before it
C29_Witness ==
    /\ last.op = "process_sbuf"
    /\ scanners[1] = 2 /\ scanners[2] = 1
    /\ \E i, j \in DOMAIN last.invoked :
          /\ i < j /\ last.invoked[i].call = 1 /\ last.invoked[j].call = 1
          /\ last.invoked[i].scanner = 1 /\ last.invoked[j].scanner = 2

(***************************************************************************)
(* write, statement by statement, called by several threads                *)
(***************************************************************************)
\* the statements of write after its tests, with the count made first
write_statements_count_first == <<"write0", "histograms_add_feature", "write0_sink">>

\* the statements of write after its tests, in their order: the feature is
\* added to the histograms, then write0 of the backend emits the record and
\* feature_recorder::write0 counts it
write_statements == <<"histograms_add_feature", "write0_sink", "write0">>

\* AtomicUnicodeHistogram::add(feature) on a histogram with no pattern, under
\* the lock of the histogram: the feature is counted
AtomicUnicodeHistogram_add(h, feature) == Append(h, feature)

\* a thread that is not in write
NotInWrite == [k |-> 0, h |-> 0, name |-> "", feature |-> <<>>, context |-> <<>>]

\* the calls of write the threads make
StepInputs == {w \in WriteInputs : w.context = <<>> /\ Len(w.feature) <= 2}

\* the histograms a recorder has when the threads start: none, one or two
StepHistograms == {<<>>, <<<<>>>>, <<<<>>, <<>>>>}

\* the recorders whose sink the call that leaves r writes to
SinksOf(r) ==
    {n \in DOMAIN recorders : Len(r.recorders[n].records) > Len(recorders[n].records)}

\* thread t has made the tests of write, whose outcome is r: it returns, throws,
\* or goes on to the statements that add, emit and count the feature
ws_enter(t, r) ==
    /\ wlast' = [op |-> "write", n |-> wlast.n + 1, thrown |-> r.thrown]
    /\ IF SinksOf(r) = {}
       THEN wthr' = wthr
       ELSE LET n == CHOOSE n \in SinksOf(r) : TRUE
                rec == r.recorders[n].records[Len(r.recorders[n].records)]
            IN  wthr' = [wthr EXCEPT ![t] = [k |-> 1, h |-> 1, name |-> n,
                                              feature |-> rec[1], context |-> rec[2]]]
    /\ UNCHANGED <<ssvars, cpvars, cvvars, sbvars, rdvars, qsvars, dtvars, yvars, hasher, scanners,
                   outdir, recorders, stop_list, stop_list_recorder>>

\* thread t calls write on the recorder url
ws_write(t, w, ndebug) ==
    /\ wthr[t].k = 0
    /\ fr_ready
    /\ ws_enter(t, write(BeforeCall, "url", w.feature, w.context, ndebug))

\* thread t makes one round of the loop of histograms_add_feature, or leaves it
ws_histograms_add_feature(t) ==
    /\ wthr[t].k > 0
    /\ write_statements[wthr[t].k] = "histograms_add_feature"
    /\ IF wthr[t].h <= Len(recorders[wthr[t].name].histograms)
       THEN /\ recorders' = [recorders EXCEPT ![wthr[t].name].histograms[wthr[t].h] =
                                 AtomicUnicodeHistogram_add(@, wthr[t].feature)]
            /\ wthr' = [wthr EXCEPT ![t].h = @ + 1]
       ELSE /\ recorders' = recorders
            /\ wthr' = [wthr EXCEPT ![t] = IF wthr[t].k = Len(write_statements)
                                           THEN NotInWrite
                                           ELSE [wthr[t] EXCEPT !.k = @ + 1]]
    /\ UNCHANGED <<ssvars, cpvars, cvvars, sbvars, rdvars, qsvars, dtvars, yvars, hasher, scanners,
                   outdir, stop_list, stop_list_recorder, wlast>>

\* thread t is past a statement of write0
ws_after(t, recs) ==
    /\ recorders' = recs
    /\ wthr' = [wthr EXCEPT ![t] = IF wthr[t].k = Len(write_statements)
                                    THEN NotInWrite
                                    ELSE [wthr[t] EXCEPT !.k = @ + 1]]
    /\ UNCHANGED <<ssvars, cpvars, cvvars, sbvars, rdvars, qsvars, dtvars, yvars, hasher, scanners,
                   outdir, stop_list, stop_list_recorder, wlast>>

\* write0 of the backend of the recorder emits the record
ws_write0_sink(t) ==
    /\ wthr[t].k > 0
    /\ write_statements[wthr[t].k] = "write0_sink"
    /\ ws_after(t, [recorders EXCEPT ![wthr[t].name].records =
                                         Append(@, <<wthr[t].feature, wthr[t].context>>)])

\* feature_recorder::write0 counts the feature
ws_write0(t) ==
    /\ wthr[t].k > 0
    /\ write_statements[wthr[t].k] = "write0"
    /\ ws_after(t, write0(BeforeCall, wthr[t].name, wthr[t].feature, wthr[t].context).recorders)

\* the driver adds a histogram to a recorder while no thread writes
ws_histogram_add(name) ==
    /\ \A t \in Threads : wthr[t].k = 0
    /\ fr_ready
    /\ recorders' = set_histogram_add(BeforeCall, name).recorders
    /\ wlast' = [op |-> "histogram_add", n |-> wlast.n + 1,
                 thrown |-> set_histogram_add(BeforeCall, name).thrown]
    /\ UNCHANGED <<ssvars, cpvars, cvvars, sbvars, rdvars, qsvars, dtvars, yvars, hasher, scanners,
                   outdir, stop_list, stop_list_recorder, wthr>>

\* the set as constructed, with the recorder url and its histograms, with or
\* without a stop list and its recorder, and threads that are about to write
InitSteps ==
    /\ CpIdle /\ CvIdle /\ SbIdle /\ RdIdle /\ QsIdle /\ DtIdle /\ HsIdle /\ OrdIdle /\ YIdle
    /\ scanner_commands = <<>>
    /\ current_phase = "PHASE_INIT"
    /\ scanner_info_db = <<>>
    /\ enabled_scanners = {}
    /\ frm = {}
    /\ histograms = <<>>
    /\ seen_set = {}
    /\ max_depth_seen = 0
    /\ last = [op |-> "scanner_set"]
    /\ \E a \in SetArgs :
          /\ outdir = a.outdir
          /\ flags = feature_recorder_set_flags(a.flags, a.outdir)
    /\ \E stopping \in BOOLEAN, d \in WriteDefs, hs \in StepHistograms :
          /\ stop_list = [configured |-> stopping,
                          words |-> IF stopping THEN {StopWord} ELSE {}]
          /\ stop_list_recorder = IF stopping THEN "stopped" ELSE ""
          /\ recorders = [name \in {"url"} \cup (IF stopping THEN {"stopped"} ELSE {}) |->
                            IF name = "url" THEN [NewRecorder(d) EXCEPT !.histograms = hs]
                                            ELSE NewRecorder(StopDef)]
    /\ wlast = [op |-> "none", n |-> 0, thrown |-> ""]
    /\ wthr = [t \in Threads |-> NotInWrite]

NextSteps ==
    \/ \E t \in Threads, w \in StepInputs, ndebug \in BOOLEAN : ws_write(t, w, ndebug)
    \/ \E t \in Threads : ws_histograms_add_feature(t)
    \/ \E t \in Threads : ws_write0_sink(t)
    \/ \E t \in Threads : ws_write0(t)
    \/ \E name \in {"url", "stopped"} : ws_histogram_add(name)

SpecSteps == InitSteps /\ [][NextSteps]_vars

\* the features a histogram holds
TotalCount(h) == Len(h)

C31_SinkSizes ==
    \A name \in DOMAIN recorders : \A i \in DOMAIN recorders[name].records :
       /\ Len(recorders[name].records[i][1]) <= recorders[name].def.max_feature_size
       /\ ~recorders[name].def.no_context =>
             Len(recorders[name].records[i][2]) <= recorders[name].def.max_context_size
       /\ recorders[name].def.no_context => recorders[name].records[i][2] = <<>>

\* a feature and a context longer than the recorder allows were written and
\* both reached the sink cut to the allowed size
C31_Witness ==
    /\ wlast.op = "write" /\ wlast.thrown = ""
    /\ Len(wlast.feature) > WriteMaxSize /\ Len(wlast.context) > WriteMaxSize
    /\ ~recorders["url"].def.no_context
    /\ \E i \in DOMAIN recorders["url"].records :
          /\ Len(recorders["url"].records[i][1]) = WriteMaxSize
          /\ Len(recorders["url"].records[i][2]) = WriteMaxSize

\* a recorder with no_context was given a context and passed none to the sink
C31_WitnessNoContext ==
    /\ wlast.op = "write" /\ wlast.thrown = "" /\ wlast.context # <<>>
    /\ recorders["url"].def.no_context
    /\ recorders["url"].records # <<>>

(***************************************************************************)
(* The sizes the constructors of sbuf_t give                               *)
(***************************************************************************)
\* a < b in size_t
size_lt(a, b) == size_gt(b, a)

\* a - b in size_t: below 0 it stands for the values at the end of size_t
size_sub(a, b) == a - b

\* static size_t min(size_t a, size_t b) { return a < b ? a : b; }
sbuf_min(a, b) == IF size_lt(a, b) THEN a ELSE b

\* explicit sbuf_t(): the empty sbuf
sbuf_empty == [pos0 |-> 0, bufsize |-> 0, pagesize |-> 0]

\* sbuf_t(pos0_, buf_, bufsize_, pagesize_, fd_, should_unmap_, should_free_,
\* should_close_)
sbuf_sized(pos0_, bufsize_, pagesize_) ==
    [pos0 |-> pos0_, bufsize |-> bufsize_, pagesize |-> sbuf_min(pagesize_, bufsize_)]

\* sbuf_t(const char *str): bufsize and pagesize are strlen(str)
sbuf_string(strlen) == [pos0 |-> 0, bufsize |-> strlen, pagesize |-> strlen]

\* sbuf_t(that_pos0, that_sbuf): the sizes of that_sbuf under another pos0
sizes_relabel(that_pos0, that_sbuf) ==
    [pos0 |-> that_pos0, bufsize |-> that_sbuf.bufsize, pagesize |-> that_sbuf.pagesize]

\* sbuf_t(sbuf_t &&that): the member initializers copy pos0 and the sizes
sizes_move(that) ==
    [pos0 |-> that.pos0, bufsize |-> that.bufsize, pagesize |-> that.pagesize]

\* sbuf_t(sbuf, off, len): bufsize and pagesize are
\* off + len < sbuf.bufsize ? len : sbuf.bufsize - off, computed in size_t
sizes_subset(sbuf, off, len) ==
    LET size == IF size_lt(size_add(off, len), sbuf.bufsize) THEN len
                ELSE size_sub(sbuf.bufsize, off)
    IN  [pos0 |-> size_add(sbuf.pos0, off), bufsize |-> size, pagesize |-> size]

\* the offset constructor with a pagesize that keeps the parent's
sizes_offset_page_kept(that_sbuf, off) ==
    [pos0 |-> size_add(that_sbuf.pos0, off),
     bufsize |-> IF size_gt(that_sbuf.bufsize, off) THEN size_sub(that_sbuf.bufsize, off) ELSE 0,
     pagesize |-> that_sbuf.pagesize]

\* sbuf_t(that_sbuf, off), which operator+ returns
sizes_offset(that_sbuf, off) ==
    [pos0 |-> size_add(that_sbuf.pos0, off),
     bufsize |-> IF size_gt(that_sbuf.bufsize, off) THEN size_sub(that_sbuf.bufsize, off) ELSE 0,
     pagesize |-> IF size_gt(that_sbuf.pagesize, off) THEN size_sub(that_sbuf.pagesize, off) ELSE 0]

\* the sizes and offsets passed: in the buffer, past it, and the last values of
\* size_t
MkSizes == (0..(MaxMkLen + 1)) \cup {0 - 1, 0 - 2}

\* the constructor op made child from the sbuf mk.child with these arguments
mk_done(op, off, len, child) ==
    /\ mk.op # "none" /\ mk.n < MaxMakes
    /\ mk' = [op |-> op, n |-> mk.n + 1, parent |-> mk.child, off |-> off, len |-> len,
              child |-> child]
    /\ UNCHANGED <<ssvars, cpvars, cvvars, sbvars, rdvars, qsvars, frvars, dtvars, xvars,
                   gl, hm, dp, sw>>

mk_subset(off, len) == mk_done("subset", off, len, sizes_subset(mk.child, off, len))

mk_offset(off) == mk_done("offset", off, 0, sizes_offset(mk.child, off))

mk_relabel(that_pos0) == mk_done("relabel", 0, 0, sizes_relabel(that_pos0, mk.child))

mk_move == mk_done("move", 0, 0, sizes_move(mk.child))

\* an sbuf made from memory or from a string, with any sizes
InitMake ==
    /\ SsInit /\ CpIdle /\ CvIdle /\ SbIdle /\ RdIdle /\ QsIdle /\ FrIdle
    /\ DtIdle /\ HsIdle /\ OrdIdle /\ WtIdle /\ GlIdle /\ HmIdle /\ DpIdle /\ SwIdle
    /\ \E root \in {sbuf_sized(p, b, g) : p \in {0, 1}, b \in 0..MaxMkLen, g \in 0..(MaxMkLen + 1)}
                   \cup {sbuf_string(n) : n \in 0..MaxMkLen} \cup {sbuf_empty} :
          mk = [op |-> "root", n |-> 0, parent |-> sbuf_empty, off |-> 0, len |-> 0,
                child |-> root]

NextMake ==
    \/ \E off \in MkSizes, len \in MkSizes : mk_subset(off, len)
    \/ \E off \in MkSizes : mk_offset(off)
    \/ \E that_pos0 \in {0, 1} : mk_relabel(that_pos0)
    \/ mk_move

SpecMake == InitMake /\ [][NextMake]_vars

\* a <= b in size_t
size_le(a, b) == ~size_gt(a, b)

\* the bytes [off, off + c.bufsize) of the child c lie in the bytes [0, p.bufsize)
\* of its parent p
InParent(p, off, c) ==
    c.bufsize = 0 \/ (size_le(off, p.bufsize) /\ size_le(c.bufsize, size_sub(p.bufsize, off)))

\* C32: for every parent p, offset off and length len of size_t, the child of
\* subset(p, off, len) or p + off has pos0 = p.pos0 + off and bytes inside the
\* parent's: subset gives bufsize = min(len, p.bufsize - off), p + off gives
\* bufsize = p.bufsize - off, never more bytes than the parent has left.
C32_ChildInParent ==
    mk.op \in {"subset", "offset"} =>
       /\ mk.child.pos0 = size_add(mk.parent.pos0, mk.off)
       /\ InParent(mk.parent, mk.off, mk.child)
       /\ (mk.op = "subset" /\ size_le(mk.off, mk.parent.bufsize)) =>
             mk.child.bufsize = sbuf_min(mk.len, size_sub(mk.parent.bufsize, mk.off))
       /\ (mk.op = "offset" /\ size_le(mk.off, mk.parent.bufsize)) =>
             mk.child.bufsize = size_sub(mk.parent.bufsize, mk.off)

\* a subset that begins one byte past a parent of three bytes has all of
\* size_t as its bufsize
C32_Witness ==
    /\ mk.op = "subset" /\ mk.parent.bufsize = 3 /\ mk.off = 4 /\ mk.len = 1
    /\ mk.child.bufsize = 0 - 1

\* C33: every constructor gives pagesize <= bufsize, for every argument; and
\* s + off with off >= s.pagesize gives pagesize 0 and bufsize s.bufsize - off.
C33_PageInBuf ==
    /\ size_le(mk.child.pagesize, mk.child.bufsize)
    /\ (mk.op = "offset" /\ size_le(mk.parent.pagesize, mk.off)) =>
          /\ mk.child.pagesize = 0
          /\ mk.child.bufsize = size_sub(mk.parent.bufsize, mk.off)

\* C33 as the code has it: every constructor gives pagesize <= bufsize; s + off
\* with off >= s.pagesize gives pagesize 0, and bufsize s.bufsize - off as long
\* as off <= s.bufsize and 0 beyond that.
C33_PageInBufClamped ==
    /\ size_le(mk.child.pagesize, mk.child.bufsize)
    /\ (mk.op = "offset" /\ size_le(mk.parent.pagesize, mk.off)) =>
          /\ mk.child.pagesize = 0
          /\ mk.child.bufsize = (IF size_le(mk.off, mk.parent.bufsize)
                                 THEN size_sub(mk.parent.bufsize, mk.off) ELSE 0)

\* s + 2 on an sbuf with a page of one byte and a margin of two: the page is
\* empty and one byte of margin is left
C33_Witness ==
    /\ mk.op = "offset" /\ mk.off = 2
    /\ mk.parent.pagesize = 1 /\ mk.parent.bufsize = 3
    /\ mk.child.pagesize = 0 /\ mk.child.bufsize = 1

(***************************************************************************)
(* sbuf_t::getline                                                         *)
(***************************************************************************)
NEWLINE == 10

\* the buffers of at most n bytes made of letters and newlines
RECURSIVE lines_upto(_)
lines_upto(n) ==
    IF n = 0 THEN {<<>>}
    ELSE LET shorter == lines_upto(n - 1)
         IN  shorter \cup {Append(t, b) : t \in {u \in shorter : Len(u) = n - 1},
                                          b \in {97, NEWLINE}}

\* while ((pos < this->pagesize) && (*this)[pos - 1] != '\n') { ++(pos); }
RECURSIVE getline_skip(_, _, _)
getline_skip(buf, pagesize, pos) ==
    IF pos < pagesize /\ buf[pos] # NEWLINE THEN getline_skip(buf, pagesize, pos + 1) ELSE pos

\* while (++pos < this->pagesize) { if ((*this)[pos] == '\n') { break; } }
\* with pos already incremented
RECURSIVE getline_scan(_, _, _)
getline_scan(buf, pagesize, pos) ==
    IF pos < pagesize
    THEN (IF buf[pos + 1] = NEWLINE THEN pos ELSE getline_scan(buf, pagesize, pos + 1))
    ELSE pos

\* the values getline leaves in pos, line_start and line_len and returns, given
\* where its first loop left pos
getline_from(buf, pagesize, pos, line_start, line_len, at) ==
    IF pos > 0 /\ at >= pagesize
    THEN [ret |-> FALSE, pos |-> at, line_start |-> line_start, line_len |-> line_len]
    ELSE [ret |-> TRUE, pos |-> getline_scan(buf, pagesize, at + 1), line_start |-> at,
          line_len |-> getline_scan(buf, pagesize, at + 1) - at]

\* sbuf_t::getline(pos, line_start, line_len) on an sbuf with the bytes buf, of
\* which the first pagesize are the page; (*this)[i] is buf[i + 1] here
getline(buf, pagesize, pos, line_start, line_len) ==
    IF pos >= pagesize
    THEN [ret |-> FALSE, pos |-> pos, line_start |-> line_start, line_len |-> line_len]
    ELSE getline_from(buf, pagesize, pos, line_start, line_len,
                      IF pos > 0 THEN getline_skip(buf, pagesize, pos) ELSE pos)

\* the caller has the result r of a call made with pos = gl.pos
gl_done(r) ==
    /\ gl' = [gl EXCEPT !.op = "getline", !.before = gl.pos, !.ret = r.ret, !.pos = r.pos,
                        !.line_start = r.line_start, !.line_len = r.line_len]
    /\ UNCHANGED <<ssvars, cpvars, cvvars, sbvars, rdvars, qsvars, frvars, dtvars, xvars,
                   mk, hm, dp, sw>>

\* the caller calls getline again with the variables of the last call
gl_getline ==
    /\ gl.op # "none"
    /\ gl_done(getline(gl.buf, gl.pagesize, gl.pos, gl.line_start, gl.line_len))

\* the caller sets pos anew
gl_seek(pos) ==
    /\ gl.op # "none"
    /\ gl' = [gl EXCEPT !.op = "seek", !.pos = pos, !.from0 = FALSE]
    /\ UNCHANGED <<ssvars, cpvars, cvvars, sbvars, rdvars, qsvars, frvars, dtvars, xvars,
                   mk, hm, dp, sw>>

\* an sbuf with a page and a margin, and a caller with pos = 0
InitLine ==
    /\ SsInit /\ CpIdle /\ CvIdle /\ SbIdle /\ RdIdle /\ QsIdle /\ FrIdle
    /\ DtIdle /\ HsIdle /\ OrdIdle /\ WtIdle /\ MkIdle /\ HmIdle /\ DpIdle /\ SwIdle
    /\ \E buf \in lines_upto(MaxLineLen) : \E pagesize \in 0..Len(buf) :
          gl = [op |-> "sbuf", buf |-> buf, pagesize |-> pagesize, from0 |-> TRUE,
                before |-> 0, pos |-> 0, ret |-> FALSE, line_start |-> 0, line_len |-> 0]

NextLine ==
    \/ gl_getline
    \/ \E pos \in 0..(MaxLineLen + 1) : gl_seek(pos)

SpecLine == InitLine /\ [][NextLine]_vars

\* the last call returned a line
LineReturned == gl.op = "getline" /\ gl.ret

\* C34: calling getline again and again from pos = 0 gives lines of the page:
\* each range [line_start, line_start + line_len) returned lies in
\* [0, pagesize), begins at 0 or right after a newline and holds no newline,
\* also with empty lines and a page that begins with a newline; and getline
\* returns false whenever pos >= pagesize.
C34_Lines ==
    /\ (LineReturned /\ gl.from0) =>
          /\ gl.line_start >= 0 /\ gl.line_start + gl.line_len <= gl.pagesize
          /\ gl.line_start = 0 \/ gl.buf[gl.line_start] = NEWLINE
          /\ \A i \in (gl.line_start + 1)..(gl.line_start + gl.line_len) :
                gl.buf[i] # NEWLINE
    /\ (gl.op = "getline" /\ gl.before >= gl.pagesize) => ~gl.ret

\* on a page that begins with a newline the first line returned is the whole
\* page, newline included
C34_Witness ==
    /\ LineReturned /\ gl.from0
    /\ gl.buf = <<NEWLINE, 97, 97>> /\ gl.pagesize = 3
    /\ gl.line_start = 0 /\ gl.line_len = 3

(***************************************************************************)
(* sbuf_t::hash, called by several threads on one sbuf                     *)
(***************************************************************************)
\* feature_recorder::hash that calls the hash function of the set itself
fr_hash_direct == "hasher.func"

\* feature_recorder::hash(sbuf): return sbuf.hash(fs.hasher.func)
fr_hash == "sbuf.hash"

\* thread t calls feature_recorder::hash on the sbuf
hm_call(t) ==
    /\ hm.op # "none" /\ hm.thr[t].pc = "idle"
    /\ Len(hm.returned) + Cardinality({u \in Threads : hm.thr[u].pc # "idle"}) < MaxHashes
    /\ hm' = IF fr_hash = "sbuf.hash"
             THEN [hm EXCEPT !.thr[t].pc = "lock"]
             ELSE [hm EXCEPT !.evals = @ + 1,
                             !.returned = Append(@, [thread |-> t, hash |-> hash_buf(hm.buf)])]
    /\ UNCHANGED <<ssvars, cpvars, cvvars, sbvars, rdvars, qsvars, frvars, dtvars, xvars,
                   mk, gl, dp, sw>>

\* sbuf_t::hash: thread t takes Mhash
hm_lock(t) ==
    /\ hm.op # "none" /\ hm.thr[t].pc = "lock" /\ hm.Mhash = 0
    /\ hm' = [hm EXCEPT !.Mhash = t, !.thr[t].pc = "locked"]
    /\ UNCHANGED <<ssvars, cpvars, cvvars, sbvars, rdvars, qsvars, frvars, dtvars, xvars,
                   mk, gl, dp, sw>>

\* sbuf_t::hash: with Mhash held, hash_ is computed if it is still empty
hm_compute(t) ==
    /\ hm.op # "none" /\ hm.thr[t].pc = "locked"
    /\ hm' = IF hm.hash_ = <<>>
             THEN [hm EXCEPT !.hash_ = hash_buf(hm.buf), !.evals = @ + 1,
                             !.thr[t].pc = "return"]
             ELSE [hm EXCEPT !.thr[t].pc = "return"]
    /\ UNCHANGED <<ssvars, cpvars, cvvars, sbvars, rdvars, qsvars, frvars, dtvars, xvars,
                   mk, gl, dp, sw>>

\* sbuf_t::hash: hash_ is returned and Mhash released
hm_return(t) ==
    /\ hm.op # "none" /\ hm.thr[t].pc = "return"
    /\ hm' = [hm EXCEPT !.Mhash = 0, !.thr[t].pc = "idle",
                        !.returned = Append(@, [thread |-> t, hash |-> hm.hash_])]
    /\ UNCHANGED <<ssvars, cpvars, cvvars, sbvars, rdvars, qsvars, frvars, dtvars, xvars,
                   mk, gl, dp, sw>>

\* an sbuf that has not been hashed
InitMemo ==
    /\ SsInit /\ CpIdle /\ CvIdle /\ SbIdle /\ RdIdle /\ QsIdle /\ FrIdle
    /\ DtIdle /\ HsIdle /\ OrdIdle /\ WtIdle /\ MkIdle /\ GlIdle /\ DpIdle /\ SwIdle
    /\ \E buf \in Contents :
          hm = [op |-> "sbuf", buf |-> buf, hash_ |-> <<>>, Mhash |-> 0, evals |-> 0,
                thr |-> [t \in Threads |-> [pc |-> "idle"]], returned |-> <<>>]

NextMemo ==
    \/ \E t \in Threads : hm_call(t)
    \/ \E t \in Threads : hm_lock(t)
    \/ \E t \in Threads : hm_compute(t)
    \/ \E t \in Threads : hm_return(t)

SpecMemo == InitMemo /\ [][NextMemo]_vars

\* C35: on one sbuf every call of hash() returns the same string, however the
\* calls of the threads interleave, and the hash function is evaluated at most
\* once: later calls return the value kept in hash_.
C35_HashMemo ==
    hm.op # "none" =>
       /\ hm.evals <= 1
       /\ \A i \in DOMAIN hm.returned : hm.returned[i].hash = hash_buf(hm.buf)

\* two threads were in hash() at once; both have returned and the function was
\* evaluated once
C35_Witness ==
    /\ hm.op # "none" /\ hm.evals = 1
    /\ \E i, j \in DOMAIN hm.returned : hm.returned[i].thread # hm.returned[j].thread
    /\ \E t \in Threads : hm.thr[t].pc = "lock"

(***************************************************************************)
(* update_maximum on max_depth_seen, called by several threads             *)
(***************************************************************************)
\* update_maximum that stores the value whatever the maximum is
update_maximum_store(prev_value, value, maximum_value) ==
    {[maximum_value |-> value, prev_value |-> prev_value, done |-> TRUE]}

\* one round of the loop of update_maximum,
\*   while (prev_value < value && !maximum_value.compare_exchange_weak(prev_value, value)) {}
\* the outcomes: the loop ends at once, the exchange succeeds, or it fails, as it
\* also may when maximum_value equals prev_value, and loads maximum_value into
\* prev_value
update_maximum(prev_value, value, maximum_value) ==
    IF ~(prev_value < value)
    THEN {[maximum_value |-> maximum_value, prev_value |-> prev_value, done |-> TRUE]}
    ELSE {[maximum_value |-> maximum_value, prev_value |-> maximum_value, done |-> FALSE]}
         \cup (IF maximum_value = prev_value
               THEN {[maximum_value |-> value, prev_value |-> prev_value, done |-> TRUE]}
               ELSE {})

\* the depths of the sbufs the threads process
DepthInputs == {0, 1, max_depth - 1, max_depth}

\* thread t enters process_sbuf with an sbuf of this depth: at max_depth the
\* alert is written, below it update_maximum begins
dp_enter(t, depth) ==
    /\ dp.thr[t].pc = "idle"
    /\ current_phase = "PHASE_SCAN"
    /\ dp' = IF depth >= max_depth THEN [dp EXCEPT !.capped = @ \cup {depth}]
             ELSE [dp EXCEPT !.passed = @ \cup {depth},
                             !.thr[t] = [pc |-> "load", value |-> depth, prev_value |-> 0]]
    /\ UNCHANGED <<ssvars, cpvars, cvvars, sbvars, rdvars, qsvars, frvars, dtvars, xvars,
                   mk, gl, hm, sw>>

\* T prev_value = maximum_value;
dp_load(t) ==
    /\ dp.thr[t].pc = "load"
    /\ dp' = [dp EXCEPT !.thr[t].pc = "loop", !.thr[t].prev_value = max_depth_seen]
    /\ UNCHANGED <<ssvars, cpvars, cvvars, sbvars, rdvars, qsvars, frvars, dtvars, xvars,
                   mk, gl, hm, sw>>

\* thread t makes one round of the loop, with the outcome r
dp_round(t, r) ==
    /\ max_depth_seen' = r.maximum_value
    /\ dp' = [dp EXCEPT !.thr[t] = IF r.done THEN [pc |-> "idle", value |-> 0, prev_value |-> 0]
                                   ELSE [@ EXCEPT !.prev_value = r.prev_value]]
    /\ UNCHANGED <<flags, scanner_commands, current_phase, scanner_info_db,
                   enabled_scanners, frm, histograms, seen_set, last,
                   cpvars, cvvars, sbvars, rdvars, qsvars, frvars, dtvars, xvars,
                   mk, gl, hm, sw>>

dp_loop(t) ==
    /\ dp.thr[t].pc = "loop"
    /\ \E r \in update_maximum(dp.thr[t].prev_value, dp.thr[t].value, max_depth_seen) :
          dp_round(t, r)

\* a scanner set in PHASE_SCAN whose threads have processed nothing yet
InitDepth ==
    /\ CpIdle /\ CvIdle /\ SbIdle /\ RdIdle /\ QsIdle /\ FrIdle
    /\ DtIdle /\ HsIdle /\ OrdIdle /\ WtIdle /\ MkIdle /\ GlIdle /\ HmIdle /\ SwIdle
    /\ flags = [no_alert |-> FALSE, disabled |-> FALSE, pedantic |-> FALSE,
                record_files |-> TRUE, record_sql |-> FALSE]
    /\ scanner_commands = <<>>
    /\ current_phase = "PHASE_SCAN"
    /\ scanner_info_db = <<>>
    /\ enabled_scanners = {}
    /\ frm = {ALERT_RECORDER_NAME}
    /\ histograms = <<>>
    /\ seen_set = {}
    /\ max_depth_seen = 0
    /\ last = [op |-> "phase_scan"]
    /\ dp = [thr |-> [t \in Threads |-> [pc |-> "idle", value |-> 0, prev_value |-> 0]],
             passed |-> {}, capped |-> {}]

NextDepth ==
    \/ \E t \in Threads, depth \in DepthInputs : dp_enter(t, depth)
    \/ \E t \in Threads : dp_load(t)
    \/ \E t \in Threads : dp_loop(t)

SpecDepth == InitDepth /\ [][NextDepth]_vars

\* the largest depth of an sbuf that passed the depth check, 0 when none did
MaxPassed == CHOOSE d \in dp.passed \cup {0} : \A e \in dp.passed : e <= d

\* no thread is in update_maximum
DepthQuiescent == \A t \in Threads : dp.thr[t].pc = "idle"

\* C36: max_depth_seen never decreases, and when no thread is updating it, it is
\* the largest depth of the sbufs that passed the depth check of process_sbuf,
\* however the calls interleave: a smaller depth written late never replaces a
\* larger one.
C36_MaxDepthSeen ==
    /\ [][max_depth_seen' >= max_depth_seen]_vars
    /\ [](DepthQuiescent => max_depth_seen = MaxPassed)

\* one thread has made max_depth_seen max_depth - 1 while another, with the
\* smaller depth 1, still holds the 0 it loaded before
C36_Witness ==
    /\ max_depth_seen = max_depth - 1
    /\ \E t \in Threads :
          dp.thr[t].pc = "loop" /\ dp.thr[t].value = 1 /\ dp.thr[t].prev_value = 0

\* a carved file holding data of hash h has been completely written
FileWritten(h) == \E k \in DOMAIN files : files[k].hash = h

\* thread t records a CACHED feature and returns CACHED in this step
ReturnsCached(t) ==
    /\ cv[t].pc = "named" /\ cv[t].in_cache
    /\ cv'[t].pc = "idle"
    /\ Len(carve_log') = Len(carve_log) + 1
    /\ carve_log'[Len(carve_log')].ret = CACHED

\* C38: whenever a carve call returns CACHED (and records a CACHED feature), a
\* carved file holding that content has already been completely and successfully
\* written by an earlier carve, also when carve calls with the same content hash
\* run concurrently and when the earlier carve failed with an I/O error after
\* inserting the hash into carve_cache.
C38_CachedAfterWritten ==
    [][ \A t \in Threads :
           ReturnsCached(t) => FileWritten(carve_hash(cv[t].data)) ]_vars

\* a carve threw runtime_error when it wrote its file, and a later carve of the
\* same content has returned CACHED: no file holds the content
C38_Witness ==
    \E i \in DOMAIN carve_log, j \in DOMAIN carve_log :
       /\ i < j
       /\ carve_log[i].thrown = "runtime_error"
       /\ carve_log[j].ret = CACHED
       /\ carve_hash(carve_log[i].data) = carve_hash(carve_log[j].data)
       /\ ~FileWritten(carve_hash(carve_log[j].data))

\* C39: two carve calls on one recorder that both miss the carve cache (their
\* content hashes differ) never write to the same file path, so no carved file is
\* truncated and overwritten by a later carve, also when both data views start at
\* the same pos0 with the same extension and their sequence numbers fall in the
\* same block of 1000.
C39_DistinctPaths ==
    \A i \in DOMAIN files, j \in DOMAIN files :
       (i # j /\ files[i].hash # files[j].hash) => files[i].path # files[j].path

\* two carves of different content at one pos0 have both missed the cache and
\* written their files, numbered 0 and 1
C39_Witness ==
    /\ carved_file_count = 2
    /\ \E i \in DOMAIN files, j \in DOMAIN files :
          /\ files[i].hash # files[j].hash
          /\ files[i].path[3] = files[j].path[3]

(***************************************************************************)
(* The sha1 demonstration scanner and the histograms of the scanners       *)
(***************************************************************************)
\* the scanner function scan_sha1 is the first scanner of the driver
scan_sha1 == 1

\* the info scan_sha1 registers in PHASE_INIT: the name sha1, the feature name
\* sha1_bufs (inserted into info.feature_names; declared says whether it is among
\* the feature_defs apply_scanner_commands reads), and the histogram
\* hd("sha1", "^(.....)", "_first5", ...) of the feature sha1
scan_sha1_info(declared) ==
    [name |-> "sha1",
     scan_ngram_buffer |-> TRUE, depth0_only |-> FALSE, scan_seen_before |-> TRUE,
     default_enabled |-> TRUE, no_all |-> FALSE,
     feature_defs |-> IF declared THEN <<"sha1_bufs">> ELSE <<>>,
     histogram_defs |-> <<"sha1">>]

\* the queue of commands: empty, sha1 enabled, or every scanner disabled and
\* sha1 enabled
Sha1CommandLists ==
    { <<>>,
      <<[scannerName |-> "sha1", command |-> "ENABLE"]>>,
      <<[scannerName |-> ALL_SCANNERS, command |-> "DISABLE"],
        [scannerName |-> "sha1", command |-> "ENABLE"]>> }

\* the other scanner of the driver, beta
Sha1Others == ScannerIds \ {scan_sha1}

InitSha1 ==
    /\ CpIdle /\ CvIdle /\ SbIdle /\ LibIdle
    /\ flags \in RecFlagSets
    /\ scanner_commands \in Sha1CommandLists
    /\ current_phase = "PHASE_INIT"
    /\ scanner_info_db = <<>>
    /\ enabled_scanners = {}
    /\ frm = {}
    /\ histograms = <<>>
    /\ seen_set = {}
    /\ max_depth_seen = 0
    /\ last = LastOf("scanner_set", <<>>, "", EmptyTrace)

NextSha1 ==
    \/ \E declared \in BOOLEAN : add_scanner(scan_sha1, scan_sha1_info(declared))
    \/ \E s \in Sha1Others : \E info \in RecInfoSet(s) : add_scanner(s, info)
    \/ Len(histograms) < MaxHistograms /\ apply_scanner_commands

SpecSha1 == InitSha1 /\ [][NextSha1]_vars

\* the feature names of the histograms the scanners of S declare
HistogramsOf(S) ==
    UNION {{scanner_info_db[s].histogram_defs[i] : i \in DOMAIN scanner_info_db[s].histogram_defs}
           : s \in S \cap DOMAIN scanner_info_db}

\* scan_sha1 is registered and is the only enabled scanner
OnlySha1Enabled == scan_sha1 \in DOMAIN scanner_info_db /\ enabled_scanners = {scan_sha1}

\* C40: for every enabled scanner, every histogram it declares names (in its
\* feature field) a feature recorder that apply_scanner_commands creates, so
\* attaching the declared histograms never fails with 'no such feature
\* recorder'; in particular with the sha1 demonstration scanner as the only
\* enabled scanner, apply_scanner_commands succeeds and its declared histogram is
\* attached to a recorder.
C40_HistogramsAttach ==
    /\ [][ (last'.op = "apply_scanner_commands" /\ current_phase = "PHASE_INIT") =>
              /\ last'.result # "NoSuchFeatureRecorder"
              /\ OnlySha1Enabled' =>
                    /\ last'.result = "ok"
                    /\ \E i \in DOMAIN histograms' : histograms'[i] \in frm' ]_vars
    /\ [](HistogramsOf(enabled_scanners) \subseteq
             DeclaredBy(DOMAIN scanner_info_db) \cup {ALERT_RECORDER_NAME})

\* scan_sha1, declaring sha1_bufs, is the only scanner registered and enabled:
\* apply_scanner_commands has failed with NoSuchFeatureRecorder, after it
\* created the recorder sha1_bufs, and has attached no histogram
C40_Witness ==
    /\ last.op = "apply_scanner_commands" /\ last.result = "NoSuchFeatureRecorder"
    /\ DOMAIN scanner_info_db = {scan_sha1}
    /\ scanner_info_db[scan_sha1] = scan_sha1_info(TRUE)
    /\ enabled_scanners = {scan_sha1}
    /\ "sha1_bufs" \in frm /\ "sha1" \notin frm
    /\ histograms = <<>>
    /\ current_phase = "PHASE_INIT"

(***************************************************************************)
(* The calls of write that the stop list nests                             *)
(***************************************************************************)
\* the frames of write the call stack has room for
MaxFrames == 4

\* the defs the stop-list recorder may have been created with: it consults no
\* stop list, or it consults the stop list of the set like any recorder
StopDefs == {StopDef, [StopDef EXCEPT !.no_stoplist = FALSE]}

\* what write hands to the stop-list recorder: feature and context as quoted
stop_list_arguments(def, feature_, context_) ==
    quote_if_necessary(def, feature_, IF def.no_context THEN <<>> ELSE context_)

\* write(pos0, feature_, context_) on the recorder name gets as far as
\* fs.stop_list_recorder->write(pos0, feature, context): the set is not
\* disabled, no test before it throws or returns, and the stop list matches
reroutes(name, feature_, context_) ==
    LET def == recorders[name].def
        q == stop_list_arguments(def, feature_, context_)
    IN  /\ ~flags.disabled
        /\ ~(flags.pedantic /\ Len(feature_) > def.max_feature_size)
        /\ ~(flags.pedantic /\ Len(context_) > def.max_context_size)
        /\ Len(q.feature) # 0
        /\ ~(flags.pedantic /\ (has_tab_nl_cr(q.feature) \/ has_tab_nl_cr(q.context)))
        /\ stop_listed(def, make_utf8(feature_), q.context)

\* the frame of write on top of the call stack
TopFrame == sw.stack[Len(sw.stack)]

sw_unchanged ==
    UNCHANGED <<ssvars, cpvars, cvvars, sbvars, rdvars, qsvars, dtvars, xvars,
                mk, gl, hm, dp, outdir, stop_list, stop_list_recorder, wlast>>

\* a scanner calls write on the recorder url
sw_write(w, ndebug) ==
    /\ sw.pc \in {"none", "returned"}
    /\ sw.n < MaxWrites
    /\ sw' = [pc |-> "called", n |-> sw.n + 1, ndebug |-> ndebug, thrown |-> "",
              stack |-> <<[name |-> "url", feature |-> w.feature, context |-> w.context]>>]
    /\ UNCHANGED recorders
    /\ sw_unchanged

\* the write on top of the stack matches the stop list and calls write of the
\* stop-list recorder
sw_reroute ==
    /\ sw.pc = "called"
    /\ reroutes(TopFrame.name, TopFrame.feature, TopFrame.context)
    /\ Len(sw.stack) < MaxFrames
    /\ LET q == stop_list_arguments(recorders[TopFrame.name].def,
                                    TopFrame.feature, TopFrame.context)
       IN  sw' = [sw EXCEPT !.stack = Append(@, [name |-> stop_list_recorder,
                                                 feature |-> q.feature,
                                                 context |-> q.context])]
    /\ UNCHANGED recorders
    /\ sw_unchanged

\* the same call when the stack has no room for another frame: the process ends
\* with SIGSEGV
sw_exhaust ==
    /\ sw.pc = "called"
    /\ reroutes(TopFrame.name, TopFrame.feature, TopFrame.context)
    /\ Len(sw.stack) = MaxFrames
    /\ sw' = [sw EXCEPT !.pc = "SIGSEGV"]
    /\ UNCHANGED recorders
    /\ sw_unchanged

\* the state the write on top of the stack leaves when it calls no other write
sw_done(st) ==
    /\ recorders' = st.recorders
    /\ sw' = [sw EXCEPT !.pc = "returning", !.thrown = st.thrown]
    /\ sw_unchanged

\* the write on top of the stack does not call the stop-list recorder: it
\* records the feature, returns early or throws
sw_record ==
    /\ sw.pc = "called"
    /\ ~reroutes(TopFrame.name, TopFrame.feature, TopFrame.context)
    /\ sw_done(write(BeforeCall, TopFrame.name, TopFrame.feature, TopFrame.context,
                     sw.ndebug))

\* the write on top of the stack returns to its caller, or passes the exception on
sw_return ==
    /\ sw.pc = "returning"
    /\ sw' = [sw EXCEPT !.stack = SubSeq(@, 1, Len(@) - 1),
                        !.pc = IF Len(sw.stack) = 1 THEN "returned" ELSE "returning"]
    /\ UNCHANGED recorders
    /\ sw_unchanged

\* a set with a stop list, its stop-list recorder and the recorder url
InitStop ==
    /\ CpIdle /\ CvIdle /\ SbIdle /\ RdIdle /\ QsIdle
    /\ DtIdle /\ HsIdle /\ OrdIdle /\ WtIdle /\ MkIdle /\ GlIdle /\ HmIdle /\ DpIdle
    /\ scanner_commands = <<>>
    /\ current_phase = "PHASE_INIT"
    /\ scanner_info_db = <<>>
    /\ enabled_scanners = {}
    /\ frm = {}
    /\ histograms = <<>>
    /\ seen_set = {}
    /\ max_depth_seen = 0
    /\ last = [op |-> "scanner_set"]
    /\ \E a \in SetArgs :
          /\ outdir = a.outdir
          /\ flags = feature_recorder_set_flags(a.flags, a.outdir)
    /\ stop_list = [configured |-> TRUE, words |-> {StopWord}]
    /\ stop_list_recorder = "stopped"
    /\ \E d \in WriteDefs, sd \in StopDefs :
          recorders = [name \in {"url", "stopped"} |->
                          IF name = "url" THEN NewRecorder(d) ELSE NewRecorder(sd)]
    /\ wlast = [op |-> "none"]
    /\ sw = [pc |-> "none", n |-> 0, ndebug |-> FALSE, thrown |-> "", stack |-> <<>>]

NextStop ==
    \/ \E w \in WriteInputs, ndebug \in BOOLEAN : sw_write(w, ndebug)
    \/ sw_reroute
    \/ sw_exhaust
    \/ sw_record
    \/ sw_return

SpecStop == InitStop /\ [][NextStop]_vars

\* the write of frame i of the stack is the stop-list recorder's, and it has
\* re-routed the feature to the stop-list recorder again
ReroutedToItself(i) ==
    /\ sw.stack[i].name = stop_list_recorder
    /\ sw.stack[i + 1].name = stop_list_recorder

\* C37: a write of a stop-listed feature terminates: when the write is re-routed
\* to the stop-list recorder, that recorder's own write does not match the stop
\* list again and re-route to itself, in every configuration in which a stop
\* list and a stop-list recorder are set, whatever the no_stoplist flag of the
\* stop-list recorder.
C37_StopListTerminates ==
    /\ sw.pc # "SIGSEGV"
    /\ \A i \in 1..(Len(sw.stack) - 1) : ~ReroutedToItself(i)

\* the stop-list recorder consults the stop list: the write of the stop word on
\* url was re-routed to it, its write has called itself until the stack had no
\* room, and nothing was recorded
C37_Witness ==
    /\ sw.pc = "SIGSEGV"
    /\ ~recorders["stopped"].def.no_stoplist
    /\ sw.stack[1] = [name |-> "url", feature |-> StopWord, context |-> <<>>]
    /\ \A i \in 2..Len(sw.stack) : sw.stack[i] = [name |-> "stopped", feature |-> StopWord,
                                                   context |-> <<>>]
    /\ recorders["stopped"].records = <<>>

====
